---------------------------- MODULE Spec2Model ----------------------------
(***************************************************************************)
(* VM lifecycle workflows of vm_manager: the create workflow               *)
(* (vm_functions/create_vm.py) and the delete / archive workflow           *)
(* (vm_functions/delete_vm.py), driven by the delay scheduler, for one     *)
(* user and one desktop type.                                              *)
(*                                                                         *)
(* The cloud connector is the environment: every query it answers is an    *)
(* input drawn from the connector's result type.  Timestamps of the store  *)
(* are kept as null / set (FALSE / TRUE).  The scheduler delivers every    *)
(* enqueued step once, and an entry point starts a run only when no step   *)
(* of an earlier run is still pending.  Time is counted from the start of  *)
(* the run in progress.                                                    *)
(***************************************************************************)
EXTENDS Integers, Sequences, FiniteSets, TLC

\* ------------------------------------------------------------------ bounds
MaxVolumes == 2
MaxInstances == 3
MaxClock == 2
MaxRuns == 2

\* Retry budgets and timeouts of vm_manager.constants, kept small.
INSTANCE_CHECK_SHUTOFF_RETRY_COUNT == 1
INSTANCE_DELETION_RETRY_COUNT == 1
VOLUME_DELETION_RETRY_COUNT == 1
BACKUP_DELETION_RETRY_COUNT == 1
VOLUME_CREATION_TIMEOUT == 1
INSTANCE_LAUNCH_TIMEOUT == 1
ARCHIVE_WAIT_SECONDS == 1

\* The Resize rows one Instance can have, the days a supersize lasts and the
\* days an expiry may lie ahead for an extension to be accepted, kept small.
MaxResizes == 2
DOWNSIZE_PERIOD == 1
EXTENSION_WINDOW == 1

\* The volumes one get_volume_list answer can hold.
MaxCandidates == 2

VolIds == 1..MaxVolumes
InstIds == 1..MaxInstances

\* ------------------------------------------------------------- vocabulary
None == "None"

\* Optional[bool] results of is_server_created / is_volume_created /
\* is_backup_created / delete_server.
Tri == {"True", "False", None}

\* Remote statuses a workflow step can be shown (ServerStatus / VolumeStatus
\* members the steps branch on, plus one member of no branch).
ServerStatus == {"ACTIVE", "SHUTOFF", "PAUSED"}
VolumeStatus == {"AVAILABLE", "CREATING", "DELETING", "BACKING_UP"}

NO_VM == "NO_VM"
VM_OKAY == "VM_OKAY"
VM_SHELVED == "VM_SHELVED"
VM_WAITING == "VM_WAITING"

\* Workflow results (vm_manager.constants WF_CONTINUE, WF_SUCCESS, WF_FAIL,
\* WF_RETRY; the prefix WF_ is reserved in TLA+).
Wf_CONTINUE == "WF_CONTINUE"
Wf_SUCCESS == "WF_SUCCESS"
Wf_FAIL == "WF_FAIL"
Wf_RETRY == "WF_RETRY"
Terminal == {Wf_SUCCESS, Wf_FAIL, Wf_RETRY}

\* The result archive_expired_volume names for a volume it does not archive.
Wf_SKIP == "WF_SKIP"

\* Stages of an Expiration; EXP_INITIAL is the stage of an Expiration whose
\* expiry has not started.
EXP_INITIAL == "EXP_INITIAL"
EXP_EXPIRING == "EXP_EXPIRING"
EXP_EXPIRY_COMPLETED == "EXP_EXPIRY_COMPLETED"
EXP_EXPIRY_FAILED == "EXP_EXPIRY_FAILED"
EXP_EXPIRY_FAILED_RETRYABLE == "EXP_EXPIRY_FAILED_RETRYABLE"

VARIABLES
    volumes,        \* Volume rows by id (present: the row exists)
    instances,      \* Instance rows by id (present: the row exists)
    vm_status,      \* the VMStatus row of the user and desktop type
    queue,          \* callbacks enqueued with the scheduler, not yet run
    now,            \* the clock
    last,           \* what the step executed last observed and did
    run             \* bookkeeping of the workflow run in progress

vars == <<volumes, instances, vm_status, queue, now, last, run>>

\* ------------------------------------------------------------------ store
NewVolume ==
    [present |-> TRUE, deleted |-> FALSE, marked_for_deletion |-> FALSE,
     shelved_at |-> FALSE, archived_at |-> FALSE, error_message |-> "",
     backup_id |-> 0, rebooted_at |-> FALSE, ready |-> FALSE,
     expiration |-> None, backup_expiration |-> None]

NoVolume == [NewVolume EXCEPT !.present = FALSE]

\* An Instance row; resizes are the Resize rows that reference it, oldest
\* first.
NewInstance(v) ==
    [present |-> TRUE, boot_volume |-> v, deleted |-> FALSE,
     marked_for_deletion |-> FALSE, error_message |-> "",
     guac_connection |-> TRUE, expires |-> FALSE, resizes |-> <<>>]

NoInstance == [NewInstance(0) EXCEPT !.present = FALSE]

\* Volume.objects.get_volume: the active Volume of the user and desktop type.
ActiveVolumes(vols) ==
    {v \in VolIds : vols[v].present /\ ~vols[v].deleted
                    /\ ~vols[v].marked_for_deletion}

get_volume(vols) ==
    IF ActiveVolumes(vols) = {} THEN 0
    ELSE CHOOSE v \in ActiveVolumes(vols) : TRUE

\* Instance.objects.get_instance: the live Instance of the user and desktop
\* type.
LiveInstances(insts) ==
    {i \in InstIds : insts[i].present /\ ~insts[i].deleted}

get_instance(insts) ==
    IF LiveInstances(insts) = {} THEN 0
    ELSE CHOOSE i \in LiveInstances(insts) : TRUE

\* CloudResource.error(msg, gone): record the error; gone also records the
\* resource as deleted.
error(row, msg, gone) ==
    [row EXCEPT !.error_message = msg,
                !.deleted = IF gone THEN TRUE ELSE @]

\* Volume.set_expires(None) drops the expiry; set_backup_expires(date) sets a
\* fresh one.
set_expires_none(row) == [row EXCEPT !.expiration = None]
set_backup_expires(row) == [row EXCEPT !.backup_expiration = EXP_INITIAL]

\* ---------------------------------------------------------- cloud connector
\* What the provider's client does inside a connector call: it answers, or
\* raises NotFound, or raises another ClientException.
Provider == {"ok", "NotFound", "ClientException"}

\* OpenStack.is_server_created / is_volume_created / is_backup_created.
is_created(p) ==
    CASE p = "ok" -> "True"
      [] p = "NotFound" -> "False"
      [] OTHER -> None

\* A faulty delete_server: NotFound is handled like any ClientException.
delete_server_NotFound_unknown(p) ==
    CASE p = "ok" -> "True"
      [] OTHER -> None

\* OpenStack.delete_server: get the server and delete it.
delete_server(p) ==
    CASE p = "ok" -> "True"
      [] p = "NotFound" -> "True"
      [] OTHER -> None

\* OpenStack.delete_volume: the ClientException branch returns nothing.
cloud_delete_volume(p) ==
    CASE p = "ok" -> "True"
      [] p = "NotFound" -> "True"
      [] OTHER -> None

\* A resource as one connector query sequence shows it: the existence check
\* and, when the resource is there, its status.
View(p, status) == [p |-> p, status |-> status]

VolumeViews ==
    {View("NotFound", "NA"), View("ClientException", "NA")}
    \cup {View("ok", s) : s \in VolumeStatus}

ServerViews ==
    {View("NotFound", "NA"), View("ClientException", "NA")}
    \cup {View("ok", s) : s \in ServerStatus}

\* -------------------------------------------------------------- scheduler
Job(func, inst, vol, retries, archive, time, backup, retries2) ==
    [func |-> func, inst |-> inst, vol |-> vol, retries |-> retries,
     archive |-> archive, time |-> time, backup |-> backup,
     retries2 |-> retries2]

\* ------------------------------------------------------------ bookkeeping
\* What a step was shown: the connector's three-valued answer, the remote
\* status, and what the provider's client did in a delete call (for a launch
\* without a Volume: in the lookup of the source volume).
NoObs == [answer |-> "NA", status |-> "NA", provider |-> "NA"]

Obs(answer, status, provider) ==
    [answer |-> answer, status |-> status, provider |-> provider]

\* The step executed last: its name, the rows it worked on, what it was
\* shown, what it returned ("None", "raise" or a workflow result), the
\* connector calls with a remote effect it made, and whether it returned
\* through _end_delete.
Step(name, inst, vol, obs, result, calls, ended) ==
    [step |-> name, inst |-> inst, vol |-> vol, obs |-> obs,
     result |-> result, calls |-> calls, ended |-> ended]

NoStep == Step("none", 0, 0, NoObs, "None", <<>>, FALSE)

\* The run in progress: its number, its kind, its volume, the stage of the
\* volume's Expiration when it started, the stage writes made so far, the
\* status_progress values written so far, the number of times
\* _check_instance_is_shutoff_and_delete (in a reboot: _check_power_state)
\* has run and the parity of the number of times wait_for_backup has run.
NoRun == [n |-> 0, kind |-> "none", vol |-> 0, stage0 |-> None,
          advanced |-> 0, progress |-> <<>>, checks |-> 0, polls |-> 0]

StartRun(kind, v) ==
    [n |-> run.n + 1, kind |-> kind, vol |-> v,
     stage0 |-> IF v = 0 THEN None ELSE volumes[v].expiration,
     advanced |-> 0, progress |-> <<>>, checks |-> 0, polls |-> 0]

\* An entry point is called when no step of an earlier run is pending.
Idle == queue = {} /\ run.n < MaxRuns

\* Ids of rows not yet in the store (ids are handed out by the provider).
FreshVolume == CHOOSE v \in VolIds : ~volumes[v].present
FreshInstance == CHOOSE i \in InstIds : ~instances[i].present

LogProgress(r, p) == [r EXCEPT !.progress = Append(@, p)]

\* ---------------------------------------------------------- create workflow
\* _create_volume: what it decides, given the active Volume row (0: none) and
\* the connector's answers.  kind is "none" (returns None), "reuse",
\* "raise" or "create"; progress is TRUE once status_progress 25 is saved.
Decision(kind, msg, progress) ==
    [kind |-> kind, error_message |-> msg, progress |-> progress]

\* A faulty _create_volume: the zone of the cinder volume is not compared
\* with the requested zone.
_create_volume_any_zone(volume, cloud, status, archived_at) ==
    IF volume # 0
    THEN IF cloud.exist \in {None, "False"}
         THEN Decision("none", "Cinder volume missing", FALSE)
         ELSE IF cloud.status # "AVAILABLE"
         THEN Decision("none", "Cinder volume in wrong state", FALSE)
         ELSE IF status = VM_SHELVED
         THEN IF archived_at THEN Decision("none", "", FALSE)
              ELSE Decision("reuse", "", FALSE)
         ELSE Decision("none", "", FALSE)
    ELSE IF ~cloud.source_found
         THEN Decision("raise", "RuntimeWarning", TRUE)
         ELSE Decision("raise", "AttributeError", TRUE)

\* A faulty _create_volume: a healthy Volume is handed back for relaunch
\* whatever the VMStatus is.
_create_volume_any_status(volume, cloud, status, archived_at) ==
    IF volume # 0
    THEN IF cloud.exist \in {None, "False"}
         THEN Decision("none", "Cinder volume missing", FALSE)
         ELSE IF cloud.status # "AVAILABLE"
         THEN Decision("none", "Cinder volume in wrong state", FALSE)
         ELSE IF ~cloud.zone_ok
         THEN Decision("none", "Cinder volume in wrong AZ", FALSE)
         ELSE IF archived_at THEN Decision("none", "", FALSE)
         ELSE Decision("reuse", "", FALSE)
    ELSE IF ~cloud.source_found
         THEN Decision("raise", "RuntimeWarning", TRUE)
         ELSE Decision("raise", "AttributeError", TRUE)

\* A faulty _create_volume: the active Volume is not looked at and a new
\* Volume is made next to it.
_create_volume_ignores_existing(volume, cloud, status, archived_at) ==
    IF volume # 0
    THEN Decision("create", "", TRUE)
    ELSE IF ~cloud.source_found
         THEN Decision("raise", "RuntimeWarning", TRUE)
         ELSE Decision("raise", "AttributeError", TRUE)

_create_volume(volume, cloud, status, archived_at) ==
    IF volume # 0
    THEN IF cloud.exist \in {None, "False"}
         THEN Decision("none", "Cinder volume missing", FALSE)
         ELSE IF cloud.status # "AVAILABLE"
         THEN Decision("none", "Cinder volume in wrong state", FALSE)
         ELSE IF ~cloud.zone_ok
         THEN Decision("none", "Cinder volume in wrong AZ", FALSE)
         ELSE IF status = VM_SHELVED
         THEN IF archived_at THEN Decision("none", "", FALSE)
              ELSE Decision("reuse", "", FALSE)
         ELSE Decision("none", "", FALSE)
    ELSE IF ~cloud.source_found
         \* _get_source_volume found no candidate with the image prefix
         THEN Decision("raise", "RuntimeWarning", TRUE)
         \* volume.hostname_id is read with no Volume row in hand
         ELSE IF volume = 0
         THEN Decision("raise", "AttributeError", TRUE)
         ELSE Decision("create", "", TRUE)

\* What launch_vm_worker can be shown: with no active Volume only the source
\* volume lookup, otherwise the connector's view of the Volume and its zone.
LaunchInputs(volume) ==
    IF volume = 0
    THEN {[exist |-> "NA", status |-> "NA", zone_ok |-> TRUE,
           source_found |-> f] : f \in BOOLEAN}
    ELSE {[exist |-> is_created(w.p), status |-> w.status, zone_ok |-> TRUE,
           source_found |-> TRUE] : w \in VolumeViews}
         \cup {[exist |-> "True", status |-> "AVAILABLE", zone_ok |-> FALSE,
                source_found |-> TRUE]}

\* A faulty conflict check: the comparison with NO_VM is inverted.
already_exists_inverted(instance, status) == instance # 0 /\ status = NO_VM

\* launch_vm_worker's conflict check: a live Instance whose VMStatus is not
\* NO_VM.
already_exists(instance, status) == instance # 0 /\ status # NO_VM

launch_vm_worker ==
    /\ Idle
    /\ \E v \in VolIds : ~volumes[v].present
    /\ \E i \in InstIds : ~instances[i].present
    /\ now' = 0
    /\ LET instance == get_instance(instances) IN
       IF already_exists(instance, vm_status.status)
       THEN /\ last' = Step("launch_vm_worker", instance, 0, NoObs,
                            "raise", <<>>, FALSE)
            /\ run' = StartRun("create", 0)
            /\ UNCHANGED <<volumes, instances, vm_status, queue>>
       ELSE \E cloud \in LaunchInputs(get_volume(volumes)) :
            LET volume == get_volume(volumes)
                d == _create_volume(
                        volume, cloud, vm_status.status,
                        IF volume = 0 THEN FALSE
                        ELSE volumes[volume].archived_at)
                nv == FreshVolume
                target == IF d.kind = "create" THEN nv ELSE volume
                job == Job("wait_to_create_instance", 0, target, 0, FALSE,
                           0, 0, 0)
            IN  /\ volumes' =
                     CASE d.kind = "reuse" ->
                            [volumes EXCEPT ![volume] = set_expires_none(@)]
                       [] d.kind = "create" ->
                            [volumes EXCEPT ![nv] = NewVolume]
                       [] d.kind = "none" /\ d.error_message # "" ->
                            [volumes EXCEPT
                               ![volume] = error(@, d.error_message, FALSE)]
                       [] OTHER -> volumes
                /\ vm_status' = IF d.progress
                                THEN [vm_status EXCEPT !.status_progress = 25]
                                ELSE vm_status
                /\ queue' = IF d.kind \in {"reuse", "create"}
                            THEN {job} ELSE {}
                /\ run' = IF d.progress
                          THEN LogProgress(StartRun("create", target), 25)
                          ELSE StartRun("create", target)
                /\ last' = Step("launch_vm_worker", instance, target,
                                Obs(cloud.exist, cloud.status,
                                    IF volume # 0 THEN "NA"
                                    ELSE IF cloud.source_found THEN "ok"
                                    ELSE "NotFound"),
                                IF d.kind = "raise" THEN "raise" ELSE "None",
                                IF d.kind = "create"
                                THEN <<"create_volume">> ELSE <<>>,
                                FALSE)
                /\ UNCHANGED instances

\* _create_instance: one create_server call and one new Instance row.
_create_instance(insts, i, volume) == [insts EXCEPT ![i] = NewInstance(volume)]

wait_to_create_instance(job) ==
    /\ job \in queue
    /\ job.func = "wait_to_create_instance"
    /\ \E cloud \in {View("ok", "AVAILABLE"), View("ok", "CREATING"),
                     View("ClientException", "NA")} :
       LET volume == job.vol
           volume_status == cloud.status
           start_time == job.time
           i == FreshInstance
           next == Job("wait_for_instance_active", i, volume, 0, FALSE,
                       now, 0, 0)
           obs == Obs("NA", volume_status, cloud.p)
       IN
       IF cloud.p # "ok"
       THEN /\ queue' = queue \ {job}
            /\ last' = Step("wait_to_create_instance", 0, volume, obs,
                            "raise", <<>>, FALSE)
            /\ UNCHANGED <<volumes, instances, vm_status, now, run>>
       ELSE IF volume_status = "AVAILABLE"
       THEN /\ instances' = _create_instance(instances, i, volume)
            /\ vm_status' = [vm_status EXCEPT !.instance = i,
                                              !.status_progress = 50]
            /\ volumes' = [volumes EXCEPT ![volume].shelved_at = FALSE]
            /\ queue' = (queue \ {job}) \cup {next}
            /\ run' = LogProgress(run, 50)
            /\ last' = Step("wait_to_create_instance", i, volume, obs,
                            "None", <<"create_server">>, FALSE)
            /\ UNCHANGED now
       ELSE IF now - start_time > VOLUME_CREATION_TIMEOUT
       THEN /\ vm_status' = [vm_status EXCEPT !.status = NO_VM]
            /\ volumes' = [volumes EXCEPT ![volume] =
                              error(@, "Volume took too long to create",
                                    FALSE)]
            /\ queue' = queue \ {job}
            /\ last' = Step("wait_to_create_instance", 0, volume, obs,
                            "raise", <<>>, FALSE)
            /\ UNCHANGED <<instances, now, run>>
       ELSE /\ queue' = (queue \ {job}) \cup {job}
            /\ last' = Step("wait_to_create_instance", 0, volume, obs,
                            "raise", <<>>, FALSE)
            /\ UNCHANGED <<volumes, instances, vm_status, now, run>>

\* A faulty wait_for_instance_active: the timeout branch sets the expiry
\* as the ACTIVE branch does.
wait_for_instance_active_expires_on_timeout(job) ==
    /\ job \in queue
    /\ job.func = "wait_for_instance_active"
    /\ \E active \in BOOLEAN :
       LET i == job.inst
           start_time == job.time
           obs == Obs("NA", IF active THEN "ACTIVE" ELSE "BUILD", "NA")
       IN
       IF active
       THEN /\ vm_status' = [vm_status EXCEPT !.status_progress = 75]
            /\ instances' = [instances EXCEPT ![i].expires = TRUE]
            /\ queue' = queue \ {job}
            /\ run' = LogProgress(run, 75)
            /\ last' = Step("wait_for_instance_active", i, job.vol, obs,
                            "None", <<>>, FALSE)
            /\ UNCHANGED <<volumes, now>>
       ELSE IF now - start_time > INSTANCE_LAUNCH_TIMEOUT
       THEN /\ vm_status' = [vm_status EXCEPT !.status = NO_VM]
            /\ instances' = [instances EXCEPT ![i] =
                                [error(@, "Instance took too long to launch",
                                       FALSE) EXCEPT !.expires = TRUE]]
            /\ queue' = queue \ {job}
            /\ last' = Step("wait_for_instance_active", i, job.vol, obs,
                            "None", <<>>, FALSE)
            /\ UNCHANGED <<volumes, now, run>>
       ELSE /\ queue' = (queue \ {job}) \cup {job}
            /\ last' = Step("wait_for_instance_active", i, job.vol, obs,
                            "None", <<>>, FALSE)
            /\ UNCHANGED <<volumes, instances, vm_status, now, run>>

\* A faulty wait_for_instance_active: the ACTIVE branch writes progress 25.
wait_for_instance_active_progress_25(job) ==
    /\ job \in queue
    /\ job.func = "wait_for_instance_active"
    /\ vm_status' = [vm_status EXCEPT !.status_progress = 25]
    /\ instances' = [instances EXCEPT ![job.inst].expires = TRUE]
    /\ queue' = queue \ {job}
    /\ run' = LogProgress(run, 25)
    /\ last' = Step("wait_for_instance_active", job.inst, job.vol,
                    Obs("NA", "ACTIVE", "NA"), "None", <<>>, FALSE)
    /\ UNCHANGED <<volumes, now>>

wait_for_instance_active(job) ==
    /\ job \in queue
    /\ job.func = "wait_for_instance_active"
    /\ \E active \in BOOLEAN :
       LET i == job.inst
           start_time == job.time
           obs == Obs("NA", IF active THEN "ACTIVE" ELSE "BUILD", "NA")
       IN
       IF active
       THEN /\ vm_status' = [vm_status EXCEPT !.status_progress = 75]
            /\ instances' = [instances EXCEPT ![i].expires = TRUE]
            /\ queue' = queue \ {job}
            /\ run' = LogProgress(run, 75)
            /\ last' = Step("wait_for_instance_active", i, job.vol, obs,
                            "None", <<>>, FALSE)
            /\ UNCHANGED <<volumes, now>>
       ELSE IF now - start_time > INSTANCE_LAUNCH_TIMEOUT
       THEN /\ vm_status' = [vm_status EXCEPT !.status = NO_VM]
            /\ instances' = [instances EXCEPT ![i] =
                                error(@, "Instance took too long to launch",
                                      FALSE)]
            /\ queue' = queue \ {job}
            /\ last' = Step("wait_for_instance_active", i, job.vol, obs,
                            "None", <<>>, FALSE)
            /\ UNCHANGED <<volumes, now, run>>
       ELSE /\ queue' = (queue \ {job}) \cup {job}
            /\ last' = Step("wait_for_instance_active", i, job.vol, obs,
                            "None", <<>>, FALSE)
            /\ UNCHANGED <<volumes, instances, vm_status, now, run>>

\* ------------------------------------------------- delete / archive workflow
\* _end_delete: the stage of every Expiration of the volume that is
\* EXP_EXPIRING moves to the stage the workflow result selects.
StageFor(wf_status) ==
    CASE wf_status = Wf_FAIL -> EXP_EXPIRY_FAILED
      [] wf_status = Wf_RETRY -> EXP_EXPIRY_FAILED_RETRYABLE
      [] wf_status = Wf_SUCCESS -> EXP_EXPIRY_COMPLETED
      [] OTHER -> EXP_EXPIRING

_end_delete(row, wf_status) ==
    [row EXCEPT
       !.expiration = IF @ = EXP_EXPIRING THEN StageFor(wf_status) ELSE @,
       !.backup_expiration =
           IF @ = EXP_EXPIRING THEN StageFor(wf_status) ELSE @]

\* Number of stage writes _end_delete makes to the volume's Expiration.
Advances(row) == IF row.expiration = EXP_EXPIRING THEN 1 ELSE 0

\* What a (sub)step does: the Volume row it leaves, the VMStatus it leaves,
\* the callbacks it enqueues, the result it returns, the connector calls it
\* makes, whether it went through _end_delete and the stage writes made.
Effect(row, vs, scheduled, result, calls, ended, advanced) ==
    [row |-> row, vm_status |-> vs, scheduled |-> scheduled,
     result |-> result, calls |-> calls, ended |-> ended,
     advanced |-> advanced]

Ended(row, vs, wf_status, calls) ==
    Effect(_end_delete(row, wf_status), vs, {}, wf_status, calls, TRUE,
           Advances(row))

\* delete_volume: the row after the call and whether it returned True.
delete_volume(row, p) ==
    IF cloud_delete_volume(p) \in {None, "False"}
    THEN [row |-> row, ok |-> FALSE]
    ELSE [row |-> [row EXCEPT !.deleted = TRUE], ok |-> TRUE]

\* A faulty _wait_until_volume_is_deleted: a volume confirmed absent is
\* handled like an unknown answer.
_wait_until_volume_is_deleted_False_unknown(v, row, vs, retries, cloud) ==
    LET volume_exist == is_created(cloud.p) IN
    IF volume_exist \in {None, "False"}
    THEN Ended(row, vs, Wf_RETRY, <<>>)
    ELSE IF cloud.status # "DELETING"
    THEN Ended(row, vs, Wf_RETRY, <<>>)
    ELSE IF retries > 0
    THEN Effect(row, vs,
                {Job("_wait_until_volume_is_deleted", 0, v, retries - 1,
                     FALSE, 0, 0, 0)},
                Wf_CONTINUE, <<>>, FALSE, 0)
    ELSE Ended(error(row, "Ran out of retries trying to delete", FALSE),
               vs, Wf_RETRY, <<>>)

_wait_until_volume_is_deleted(v, row, vs, retries, cloud) ==
    LET volume_exist == is_created(cloud.p) IN
    IF volume_exist = None
    THEN Ended(row, vs, Wf_RETRY, <<>>)
    ELSE IF volume_exist = "False"
    THEN Ended([row EXCEPT !.deleted = TRUE], vs, Wf_SUCCESS, <<>>)
    ELSE IF cloud.status # "DELETING"
    THEN Ended(row, vs, Wf_RETRY, <<>>)
    ELSE IF retries > 0
    THEN Effect(row, vs,
                {Job("_wait_until_volume_is_deleted", 0, v, retries - 1,
                     FALSE, 0, 0, 0)},
                Wf_CONTINUE, <<>>, FALSE, 0)
    ELSE Ended(error(row, "Ran out of retries trying to delete", FALSE),
               vs, Wf_RETRY, <<>>)

archive_volume_worker(v, row, vs, cloud, t) ==
    LET marked == [row EXCEPT !.marked_for_deletion = TRUE]
        volume_exist == is_created(cloud.p)
    IN
    IF volume_exist \in {None, "False"}
    THEN Ended(error(marked, "Cloud volume missing. Cannot be archived.",
                     FALSE),
               vs, Wf_SUCCESS, <<>>)
    ELSE IF cloud.status # "AVAILABLE"
    THEN Ended(marked, vs, Wf_RETRY, <<>>)
    ELSE IF ~cloud.backup_ok
    THEN Ended(error(marked, "Cinder backup failed", FALSE), vs, Wf_RETRY,
               <<"create_volume_backup">>)
    ELSE Effect(marked, [vs EXCEPT !.status = NO_VM],
                {Job("wait_for_backup", 0, v, 0, FALSE,
                     t + ARCHIVE_WAIT_SECONDS, cloud.backup, 0)},
                Wf_CONTINUE, <<"create_volume_backup">>, FALSE, 0)

\* Applies a (sub)step's effect on volume v to the state.
Apply(name, inst, v, obs, e, job, r) ==
    /\ volumes' = [volumes EXCEPT ![v] = e.row]
    /\ vm_status' = e.vm_status
    /\ queue' = (queue \ job) \cup e.scheduled
    /\ run' = [r EXCEPT !.advanced = @ + e.advanced]
    /\ last' = Step(name, inst, v, obs, e.result, e.calls, e.ended)

\* What archive_volume_worker can be shown: the connector's view of the
\* volume and, for an AVAILABLE volume, whether create_volume_backup raises.
ArchiveInputs(v) ==
    {[p |-> w.p, status |-> w.status, backup_ok |-> TRUE, backup |-> v] :
        w \in VolumeViews}
    \cup {[p |-> "ok", status |-> "AVAILABLE", backup_ok |-> FALSE,
           backup |-> v]}

delete_vm_worker(i, archive) ==
    /\ Idle
    /\ instances[i].present /\ ~instances[i].deleted
    /\ \E w \in ServerViews :
       LET v == instances[i].boot_volume
           detached == [instances[i] EXCEPT !.guac_connection = FALSE]
           server_exist == is_created(w.p)
           status == w.status
           obs == Obs(server_exist, status, "NA")
           next == Job("_check_instance_is_shutoff_and_delete", i, v,
                       INSTANCE_CHECK_SHUTOFF_RETRY_COUNT, archive, 0, 0,
                       INSTANCE_DELETION_RETRY_COUNT)
       IN
       /\ run' = StartRun("delete", v)
       /\ now' = 0
       /\ UNCHANGED <<volumes, vm_status>>
       /\ IF server_exist \in {None, "False"}
          THEN /\ instances' = [instances EXCEPT ![i] =
                      error(detached, "Nova instance is missing", TRUE)]
               /\ queue' = {next}
               /\ last' = Step("delete_vm_worker", i, v, obs, Wf_CONTINUE,
                               <<>>, FALSE)
          ELSE IF status \in {"ACTIVE", "SHUTOFF"}
          THEN /\ instances' = [instances EXCEPT ![i] = detached]
               /\ queue' = {next}
               /\ last' = Step("delete_vm_worker", i, v, obs, Wf_CONTINUE,
                               IF status = "ACTIVE"
                               THEN <<"stop_server">> ELSE <<>>,
                               FALSE)
          ELSE /\ instances' = [instances EXCEPT ![i] =
                      error(detached, "Nova instance state is unexpected",
                            FALSE)]
               /\ queue' = {}
               /\ last' = Step("delete_vm_worker", i, v, obs, Wf_RETRY,
                               <<>>, FALSE)

\* delete_instance: the row after the call and whether it returned True.
delete_instance(row, p) ==
    IF delete_server(p) \in {None, "False"}
    THEN [row |-> row, ok |-> FALSE]
    ELSE [row |-> [row EXCEPT !.marked_for_deletion = TRUE], ok |-> TRUE]

\* A faulty _check_instance_is_shutoff_and_delete: with the retries used up
\* and the server still not SHUTOFF it gives up instead of deleting.
_check_instance_is_shutoff_and_delete_aborts_when_exhausted(job) ==
    /\ job \in queue
    /\ job.func = "_check_instance_is_shutoff_and_delete"
    /\ \E shutoff \in BOOLEAN, p \in Provider :
       LET i == job.inst
           name == "_check_instance_is_shutoff_and_delete"
           status == IF shutoff THEN "SHUTOFF" ELSE "OTHER"
           again == [job EXCEPT !.retries = @ - 1]
           next == Job("_dispose_volume_once_instance_is_deleted", i,
                       job.vol, job.retries2, job.archive, 0, 0, 0)
           di == delete_instance(instances[i], p)
       IN
       /\ UNCHANGED <<volumes, now>>
       /\ run' = [run EXCEPT !.checks = @ + 1]
       /\ IF ~shutoff /\ job.retries > 0
          THEN /\ queue' = (queue \ {job}) \cup {again}
               /\ last' = Step(name, i, job.vol, Obs("NA", status, "NA"),
                               Wf_CONTINUE, <<>>, FALSE)
               /\ UNCHANGED <<instances, vm_status>>
          ELSE IF ~shutoff
          THEN /\ queue' = queue \ {job}
               /\ last' = Step(name, i, job.vol, Obs("NA", status, "NA"),
                               Wf_FAIL, <<>>, FALSE)
               /\ UNCHANGED <<instances, vm_status>>
          ELSE /\ vm_status' =
                     IF vm_status.status = VM_WAITING
                     THEN [vm_status EXCEPT !.status_progress = 66]
                     ELSE vm_status
               /\ instances' = [instances EXCEPT ![i] = di.row]
               /\ queue' = (queue \ {job})
                           \cup (IF di.ok THEN {next} ELSE {})
               /\ last' = Step(name, i, job.vol,
                               Obs(delete_server(p), status, p),
                               IF di.ok THEN Wf_CONTINUE ELSE Wf_FAIL,
                               <<"delete_server">>, FALSE)

\* A faulty _check_instance_is_shutoff_and_delete: the invocation that
\* deletes the server also schedules another check.
_check_instance_is_shutoff_and_delete_and_rechecks(job) ==
    /\ job \in queue
    /\ job.func = "_check_instance_is_shutoff_and_delete"
    /\ \E shutoff \in BOOLEAN, p \in Provider :
       LET i == job.inst
           name == "_check_instance_is_shutoff_and_delete"
           status == IF shutoff THEN "SHUTOFF" ELSE "OTHER"
           again == [job EXCEPT !.retries = @ - 1]
           next == Job("_dispose_volume_once_instance_is_deleted", i,
                       job.vol, job.retries2, job.archive, 0, 0, 0)
           di == delete_instance(instances[i], p)
       IN
       /\ UNCHANGED <<volumes, now>>
       /\ run' = [run EXCEPT !.checks = @ + 1]
       /\ IF ~shutoff /\ job.retries > 0
          THEN /\ queue' = (queue \ {job}) \cup {again}
               /\ last' = Step(name, i, job.vol, Obs("NA", status, "NA"),
                               Wf_CONTINUE, <<>>, FALSE)
               /\ UNCHANGED <<instances, vm_status>>
          ELSE /\ vm_status' =
                     IF vm_status.status = VM_WAITING
                     THEN [vm_status EXCEPT !.status_progress = 66]
                     ELSE vm_status
               /\ instances' = [instances EXCEPT ![i] = di.row]
               /\ queue' = (queue \ {job})
                           \cup (IF di.ok THEN {next, again} ELSE {})
               /\ last' = Step(name, i, job.vol,
                               Obs(delete_server(p), status, p),
                               IF di.ok THEN Wf_CONTINUE ELSE Wf_FAIL,
                               <<"delete_server">>, FALSE)

\* instance.check_shutdown_status() answers whether the server is SHUTOFF;
\* the step records that answer as the status it was shown, and what
\* delete_server answered when it called it.
_check_instance_is_shutoff_and_delete(job) ==
    /\ job \in queue
    /\ job.func = "_check_instance_is_shutoff_and_delete"
    /\ \E shutoff \in BOOLEAN, p \in Provider :
       LET i == job.inst
           name == "_check_instance_is_shutoff_and_delete"
           status == IF shutoff THEN "SHUTOFF" ELSE "OTHER"
           again == [job EXCEPT !.retries = @ - 1]
           next == Job("_dispose_volume_once_instance_is_deleted", i,
                       job.vol, job.retries2, job.archive, 0, 0, 0)
           di == delete_instance(instances[i], p)
       IN
       /\ UNCHANGED <<volumes, now>>
       /\ run' = [run EXCEPT !.checks = @ + 1]
       /\ IF ~shutoff /\ job.retries > 0
          THEN /\ queue' = (queue \ {job}) \cup {again}
               /\ last' = Step(name, i, job.vol, Obs("NA", status, "NA"),
                               Wf_CONTINUE, <<>>, FALSE)
               /\ UNCHANGED <<instances, vm_status>>
          ELSE /\ vm_status' =
                     IF vm_status.status = VM_WAITING
                     THEN [vm_status EXCEPT !.status_progress = 66]
                     ELSE vm_status
               /\ instances' = [instances EXCEPT ![i] = di.row]
               /\ queue' = (queue \ {job})
                           \cup (IF di.ok THEN {next} ELSE {})
               /\ last' = Step(name, i, job.vol,
                               Obs(delete_server(p), status, p),
                               IF di.ok THEN Wf_CONTINUE ELSE Wf_FAIL,
                               <<"delete_server">>, FALSE)

\* What _dispose_volume_once_instance_is_deleted can be shown: the server
\* check and, once the server is gone, what the disposal of the volume is
\* shown (archive_volume_worker's inputs, or the provider in delete_volume).
DisposeInputs(v, archive) ==
    {[server |-> p, volume |-> View("ok", "NA"), backup_ok |-> TRUE,
      backup |-> v] : p \in {"ok", "ClientException"}}
    \cup
    (IF archive
     THEN {[server |-> "NotFound", volume |-> View(a.p, a.status),
            backup_ok |-> a.backup_ok, backup |-> v] : a \in ArchiveInputs(v)}
     ELSE {[server |-> "NotFound", volume |-> View(p, "NA"),
            backup_ok |-> TRUE, backup |-> v] : p \in Provider})

\* A faulty _dispose_volume_once_instance_is_deleted: with the retries used
\* up it disposes of the volume although the server is still there.
_dispose_volume_once_instance_is_deleted_after_retries(job) ==
    /\ job \in queue
    /\ job.func = "_dispose_volume_once_instance_is_deleted"
    /\ \E in \in DisposeInputs(job.vol, job.archive) :
       LET i == job.inst
           v == job.vol
           name == "_dispose_volume_once_instance_is_deleted"
           server_exist == is_created(in.server)
           obs == Obs(server_exist, in.volume.status, in.volume.p)
           again == [job EXCEPT !.retries = @ - 1]
           dv == delete_volume(volumes[v], in.volume.p)
           wait == Job("_wait_until_volume_is_deleted", 0, v,
                       VOLUME_DELETION_RETRY_COUNT, FALSE, 0, 0, 0)
           disposal ==
               IF job.archive
               THEN archive_volume_worker(
                        v, volumes[v], vm_status,
                        [p |-> in.volume.p, status |-> in.volume.status,
                         backup_ok |-> in.backup_ok, backup |-> in.backup],
                        now)
               ELSE IF dv.ok
               THEN Effect(dv.row, vm_status, {wait}, Wf_CONTINUE,
                           <<"delete_volume">>, FALSE, 0)
               ELSE Ended(dv.row, vm_status, Wf_RETRY, <<"delete_volume">>)
       IN
       /\ UNCHANGED now
       /\ IF server_exist = None
          THEN /\ queue' = queue \ {job}
               /\ last' = Step(name, i, v, obs, Wf_RETRY, <<>>, FALSE)
               /\ UNCHANGED <<volumes, instances, vm_status, run>>
          ELSE IF server_exist = "False" \/ job.retries = 0
          THEN /\ instances' = [instances EXCEPT ![i].deleted = TRUE]
               /\ Apply(name, i, v, obs, disposal, {job}, run)
          ELSE IF job.retries > 0
          THEN /\ queue' = (queue \ {job}) \cup {again}
               /\ last' = Step(name, i, v, obs, Wf_CONTINUE, <<>>, FALSE)
               /\ UNCHANGED <<volumes, instances, vm_status, run>>
          ELSE /\ instances' = [instances EXCEPT ![i] =
                      error(@, "Ran out of retries trying to delete", FALSE)]
               /\ queue' = queue \ {job}
               /\ last' = Step(name, i, v, obs, Wf_RETRY, <<>>, FALSE)
               /\ UNCHANGED <<volumes, vm_status, run>>

_dispose_volume_once_instance_is_deleted(job) ==
    /\ job \in queue
    /\ job.func = "_dispose_volume_once_instance_is_deleted"
    /\ \E in \in DisposeInputs(job.vol, job.archive) :
       LET i == job.inst
           v == job.vol
           name == "_dispose_volume_once_instance_is_deleted"
           server_exist == is_created(in.server)
           obs == Obs(server_exist, in.volume.status, in.volume.p)
           again == [job EXCEPT !.retries = @ - 1]
           dv == delete_volume(volumes[v], in.volume.p)
           wait == Job("_wait_until_volume_is_deleted", 0, v,
                       VOLUME_DELETION_RETRY_COUNT, FALSE, 0, 0, 0)
           disposal ==
               IF job.archive
               THEN archive_volume_worker(
                        v, volumes[v], vm_status,
                        [p |-> in.volume.p, status |-> in.volume.status,
                         backup_ok |-> in.backup_ok, backup |-> in.backup],
                        now)
               ELSE IF dv.ok
               THEN Effect(dv.row, vm_status, {wait}, Wf_CONTINUE,
                           <<"delete_volume">>, FALSE, 0)
               ELSE Ended(dv.row, vm_status, Wf_RETRY, <<"delete_volume">>)
       IN
       /\ UNCHANGED now
       /\ IF server_exist = None
          THEN /\ queue' = queue \ {job}
               /\ last' = Step(name, i, v, obs, Wf_RETRY, <<>>, FALSE)
               /\ UNCHANGED <<volumes, instances, vm_status, run>>
          ELSE IF server_exist = "False"
          THEN /\ instances' = [instances EXCEPT ![i].deleted = TRUE]
               /\ Apply(name, i, v, obs, disposal, {job}, run)
          ELSE IF job.retries > 0
          THEN /\ queue' = (queue \ {job}) \cup {again}
               /\ last' = Step(name, i, v, obs, Wf_CONTINUE, <<>>, FALSE)
               /\ UNCHANGED <<volumes, instances, vm_status, run>>
          ELSE /\ instances' = [instances EXCEPT ![i] =
                      error(@, "Ran out of retries trying to delete", FALSE)]
               /\ queue' = queue \ {job}
               /\ last' = Step(name, i, v, obs, Wf_RETRY, <<>>, FALSE)
               /\ UNCHANGED <<volumes, vm_status, run>>

\* What delete_volume_worker can be shown: the provider in delete_volume
\* and, when the delete was accepted, the connector's view of the volume.
DeleteVolumeInputs ==
    {[p |-> "ClientException", volume |-> View("ok", "NA")]}
    \cup {[p |-> p, volume |-> w] :
             p \in {"ok", "NotFound"}, w \in VolumeViews}

delete_volume_worker(v) ==
    /\ Idle
    /\ volumes[v].present /\ ~volumes[v].deleted
    /\ \E in \in DeleteVolumeInputs :
       LET dv == delete_volume(volumes[v], in.p)
           w == _wait_until_volume_is_deleted(
                    v, dv.row, vm_status, VOLUME_DELETION_RETRY_COUNT,
                    in.volume)
           e == IF dv.ok
                THEN [w EXCEPT !.calls = <<"delete_volume">>]
                ELSE Effect(dv.row, vm_status, {}, Wf_FAIL,
                            <<"delete_volume">>, FALSE, 0)
       IN
       /\ Apply("delete_volume_worker", 0, v,
                Obs(IF dv.ok THEN is_created(in.volume.p) ELSE "NA",
                    in.volume.status, in.p),
                e, {}, StartRun("delete_volume", v))
       /\ now' = 0
       /\ UNCHANGED instances

deliver_wait_until_volume_is_deleted(job) ==
    /\ job \in queue
    /\ job.func = "_wait_until_volume_is_deleted"
    /\ \E w \in VolumeViews :
       LET v == job.vol
           e == _wait_until_volume_is_deleted(
                    v, volumes[v], vm_status, job.retries, w)
       IN
       /\ Apply("_wait_until_volume_is_deleted", 0, v,
                Obs(is_created(w.p), w.status, "NA"), e, {job}, run)
       /\ UNCHANGED <<instances, now>>

archive_expired_volume(v) ==
    /\ Idle
    /\ volumes[v].present /\ ~volumes[v].deleted
    /\ \E in \in IF vm_status.status # VM_SHELVED
                 THEN {[p |-> "ok", status |-> "NA", backup_ok |-> TRUE,
                        backup |-> v]}
                 ELSE ArchiveInputs(v) :
       LET e == IF vm_status.status # VM_SHELVED
                \* WF_SKIP is not a name of the module: the NameError is
                \* caught and logged by the handler's except clause
                THEN Effect(volumes[v], vm_status, {}, Wf_FAIL, <<>>,
                            FALSE, 0)
                ELSE archive_volume_worker(v, volumes[v], vm_status, in, 0)
       IN
       /\ Apply("archive_expired_volume", 0, v,
                IF vm_status.status # VM_SHELVED THEN NoObs
                ELSE Obs(is_created(in.p), in.status, "NA"),
                e, {}, StartRun("archive", v))
       /\ now' = 0
       /\ UNCHANGED instances

\* What wait_for_backup can be shown: the connector's view of the backup
\* and, for an AVAILABLE backup, the provider in delete_volume.
BackupInputs ==
    {[backup |-> w, p |-> "ok"] : w \in VolumeViews}
    \cup {[backup |-> View("ok", "AVAILABLE"), p |-> p] : p \in Provider}

\* A faulty wait_for_backup: every backup that is no longer BACKING_UP is
\* taken for a complete one.
wait_for_backup_deletes_in_any_state(job) ==
    /\ job \in queue
    /\ job.func = "wait_for_backup"
    /\ \E in \in BackupInputs :
       LET v == job.vol
           row == volumes[v]
           deadline == job.time
           backup_exist == is_created(in.backup.p)
           backup_status == in.backup.status
           archived == set_backup_expires(
                           [row EXCEPT !.backup_id = job.backup,
                                       !.archived_at = TRUE])
           e == IF backup_exist \in {None, "False"}
                THEN Ended(row, vm_status, Wf_RETRY, <<>>)
                ELSE IF backup_status = "BACKING_UP"
                THEN IF now > deadline
                     THEN Ended(row, vm_status, Wf_RETRY, <<>>)
                     ELSE Effect(row, vm_status, {job}, Wf_CONTINUE, <<>>,
                                 FALSE, 0)
                ELSE IF backup_status # "BACKING_UP"
                THEN Ended(delete_volume(archived, in.p).row, vm_status,
                           Wf_SUCCESS, <<"delete_volume">>)
                ELSE Ended(row, vm_status, Wf_FAIL, <<>>)
       IN
       /\ Apply("wait_for_backup", 0, v,
                Obs(backup_exist, backup_status,
                    IF backup_status = "AVAILABLE" THEN in.p ELSE "NA"),
                e, {job}, [run EXCEPT !.polls = 1 - @])
       /\ UNCHANGED <<instances, now>>

\* A faulty wait_for_backup: the deadline is never looked at.
wait_for_backup_without_deadline(job) ==
    /\ job \in queue
    /\ job.func = "wait_for_backup"
    /\ \E in \in BackupInputs :
       LET v == job.vol
           row == volumes[v]
           deadline == job.time
           backup_exist == is_created(in.backup.p)
           backup_status == in.backup.status
           archived == set_backup_expires(
                           [row EXCEPT !.backup_id = job.backup,
                                       !.archived_at = TRUE])
           e == IF backup_exist \in {None, "False"}
                THEN Ended(row, vm_status, Wf_RETRY, <<>>)
                ELSE IF backup_status = "BACKING_UP"
                THEN IF FALSE
                     THEN Ended(row, vm_status, Wf_RETRY, <<>>)
                     ELSE Effect(row, vm_status, {job}, Wf_CONTINUE, <<>>,
                                 FALSE, 0)
                ELSE IF backup_status = "AVAILABLE"
                THEN Ended(delete_volume(archived, in.p).row, vm_status,
                           Wf_SUCCESS, <<"delete_volume">>)
                ELSE Ended(row, vm_status, Wf_FAIL, <<>>)
       IN
       /\ Apply("wait_for_backup", 0, v,
                Obs(backup_exist, backup_status,
                    IF backup_status = "AVAILABLE" THEN in.p ELSE "NA"),
                e, {job}, [run EXCEPT !.polls = 1 - @])
       /\ UNCHANGED <<instances, now>>

wait_for_backup(job) ==
    /\ job \in queue
    /\ job.func = "wait_for_backup"
    /\ \E in \in BackupInputs :
       LET v == job.vol
           row == volumes[v]
           deadline == job.time
           backup_exist == is_created(in.backup.p)
           backup_status == in.backup.status
           archived == set_backup_expires(
                           [row EXCEPT !.backup_id = job.backup,
                                       !.archived_at = TRUE])
           e == IF backup_exist \in {None, "False"}
                THEN Ended(row, vm_status, Wf_RETRY, <<>>)
                ELSE IF backup_status = "BACKING_UP"
                THEN IF now > deadline
                     THEN Ended(row, vm_status, Wf_RETRY, <<>>)
                     ELSE Effect(row, vm_status, {job}, Wf_CONTINUE, <<>>,
                                 FALSE, 0)
                ELSE IF backup_status = "AVAILABLE"
                THEN Ended(delete_volume(archived, in.p).row, vm_status,
                           Wf_SUCCESS, <<"delete_volume">>)
                ELSE Ended(row, vm_status, Wf_FAIL, <<>>)
       IN
       /\ Apply("wait_for_backup", 0, v,
                Obs(backup_exist, backup_status,
                    IF backup_status = "AVAILABLE" THEN in.p ELSE "NA"),
                e, {job}, [run EXCEPT !.polls = 1 - @])
       /\ UNCHANGED <<instances, now>>

delete_backup_worker(v) ==
    /\ Idle
    /\ volumes[v].present
    /\ \E deleted \in IF volumes[v].backup_id = 0 THEN {"NA"} ELSE Tri :
       LET row == volumes[v]
           wait == Job("_wait_until_backup_is_deleted", 0, v,
                       BACKUP_DELETION_RETRY_COUNT, FALSE, 0, 0, 0)
           e == IF row.backup_id = 0
                THEN Effect(row, vm_status, {}, Wf_SUCCESS, <<>>, FALSE, 0)
                ELSE IF deleted = None
                THEN Effect(row, vm_status, {}, Wf_RETRY,
                            <<"delete_volume_backup">>, FALSE, 0)
                ELSE IF deleted = "True"
                THEN Effect([row EXCEPT !.backup_id = 0], vm_status, {},
                            Wf_SUCCESS, <<"delete_volume_backup">>, FALSE, 0)
                ELSE Effect(row, vm_status, {wait}, Wf_CONTINUE,
                            <<"delete_volume_backup">>, FALSE, 0)
       IN
       /\ Apply("delete_backup_worker", 0, v, Obs(deleted, "NA", "NA"),
                e, {}, StartRun("delete_backup", v))
       /\ now' = 0
       /\ UNCHANGED instances

_wait_until_backup_is_deleted(job) ==
    /\ job \in queue
    /\ job.func = "_wait_until_backup_is_deleted"
    /\ \E p \in Provider :
       LET v == job.vol
           row == volumes[v]
           backup_exist == is_created(p)
           again == [job EXCEPT !.retries = @ - 1]
           e == IF backup_exist = None
                THEN Ended(row, vm_status, Wf_RETRY, <<>>)
                ELSE IF backup_exist = "False"
                THEN Ended([row EXCEPT !.backup_id = 0], vm_status,
                           Wf_SUCCESS, <<>>)
                ELSE IF job.retries > 0
                THEN Effect(row, vm_status, {again}, Wf_CONTINUE, <<>>,
                            FALSE, 0)
                ELSE Ended(row, vm_status, Wf_RETRY, <<>>)
       IN
       /\ Apply("_wait_until_backup_is_deleted", 0, v,
                Obs(backup_exist, "NA", "NA"), e, {job}, run)
       /\ UNCHANGED <<instances, now>>

\* The clock advances while a run is in progress.
Tick ==
    /\ queue # {}
    /\ now < MaxClock
    /\ now' = now + 1
    /\ UNCHANGED <<volumes, instances, vm_status, queue, last, run>>

\* ------------------------------------------------------------ specification
\* The store before the first step: a user without any desktop, a user with
\* a shelved desktop (volume kept, instance deleted), or a user with a
\* running desktop (instance live on its boot volume).
VMStatus(status, progress, instance) ==
    [status |-> status, status_progress |-> progress, instance |-> instance]

Stores ==
    LET none_v == [v \in VolIds |-> NoVolume]
        none_i == [i \in InstIds |-> NoInstance]
        gone == [NewInstance(1) EXCEPT !.deleted = TRUE,
                                       !.marked_for_deletion = TRUE,
                                       !.guac_connection = FALSE,
                                       !.expires = TRUE]
        live == [NewInstance(1) EXCEPT !.expires = TRUE]
    IN
    {[volumes |-> none_v, instances |-> none_i,
      vm_status |-> VMStatus(NO_VM, 0, 0)]}
    \cup
    {[volumes |-> [none_v EXCEPT ![1] =
                     [NewVolume EXCEPT !.shelved_at = TRUE,
                                       !.expiration = e]],
      instances |-> [none_i EXCEPT ![1] = gone],
      vm_status |-> VMStatus(VM_SHELVED, 100, 1)]
     : e \in {None, EXP_INITIAL, EXP_EXPIRING}}
    \cup
    {[volumes |-> [none_v EXCEPT ![1] = [NewVolume EXCEPT !.expiration = e]],
      instances |-> [none_i EXCEPT ![1] = live],
      vm_status |-> VMStatus(st, 100, 1)]
     : e \in {None, EXP_INITIAL, EXP_EXPIRING}, st \in {VM_OKAY, VM_WAITING}}

Init ==
    /\ \E s \in Stores :
          /\ volumes = s.volumes
          /\ instances = s.instances
          /\ vm_status = s.vm_status
    /\ queue = {}
    /\ now = 0
    /\ last = NoStep
    /\ run = NoRun

Next ==
    \/ launch_vm_worker
    \/ \E job \in queue : wait_to_create_instance(job)
    \/ \E job \in queue : wait_for_instance_active(job)
    \/ \E i \in InstIds, archive \in BOOLEAN : delete_vm_worker(i, archive)
    \/ \E job \in queue : _check_instance_is_shutoff_and_delete(job)
    \/ \E job \in queue : _dispose_volume_once_instance_is_deleted(job)
    \/ \E v \in VolIds : delete_volume_worker(v)
    \/ \E job \in queue : deliver_wait_until_volume_is_deleted(job)
    \/ \E v \in VolIds : archive_expired_volume(v)
    \/ \E job \in queue : wait_for_backup(job)
    \/ \E v \in VolIds : delete_backup_worker(v)
    \/ \E job \in queue : _wait_until_backup_is_deleted(job)
    \/ Tick

Spec == Init /\ [][Next]_vars

C2_StageAdvancedExactlyOnce ==
    (/\ run.kind \in {"delete", "delete_volume", "archive"}
     /\ last.result \in Terminal)
    => IF run.stage0 = EXP_EXPIRING
       THEN /\ run.advanced = 1
            /\ volumes[run.vol].expiration # EXP_EXPIRING
       ELSE /\ run.advanced = 0
            /\ volumes[run.vol].expiration = run.stage0

\* C3: a step of the delete / archive workflow that returned a terminal
\* result returned it through _end_delete.
C3_TerminalThroughEndDelete ==
    (/\ last.step \in {"delete_vm_worker",
                       "_check_instance_is_shutoff_and_delete",
                       "_dispose_volume_once_instance_is_deleted",
                       "delete_volume_worker",
                       "_wait_until_volume_is_deleted",
                       "wait_for_backup"}
     /\ last.result \in Terminal)
    => last.ended

\* C4: a polling step that is answered None by the existence check enqueues
\* the same check again, records nothing as deleted and does not end the run.
C4_UnknownReschedulesSameCheck ==
    [][(/\ last'.step \in {"_dispose_volume_once_instance_is_deleted",
                           "_wait_until_volume_is_deleted",
                           "_wait_until_backup_is_deleted",
                           "wait_for_backup"}
        /\ last'.obs.answer = None
        /\ queue' # queue)
       => (/\ \E j \in queue' : j.func = last'.step
           /\ last'.result = Wf_CONTINUE
           /\ ~last'.ended
           /\ instances' = instances
           /\ volumes' = volumes)]_vars

\* C5: a polling step of the delete workflow that is answered False treats
\* the resource as deleted and advances, and enqueues no further check of it:
\* _dispose_volume_once_instance_is_deleted sets Instance.deleted and starts
\* the disposal of the volume, _wait_until_volume_is_deleted sets
\* Volume.deleted and ends with WF_SUCCESS, _wait_until_backup_is_deleted
\* clears backup_id and ends with WF_SUCCESS.
C5_AbsentAdvances ==
    last.obs.answer = "False" =>
        /\ last.step = "_dispose_volume_once_instance_is_deleted" =>
              /\ instances[last.inst].deleted
              /\ \/ volumes[last.vol].marked_for_deletion
                 \/ last.calls = <<"delete_volume">>
              /\ \A j \in queue : j.func # last.step
        /\ last.step = "_wait_until_volume_is_deleted" =>
              /\ volumes[last.vol].deleted
              /\ last.result = Wf_SUCCESS /\ last.ended
              /\ queue = {}
        /\ last.step = "_wait_until_backup_is_deleted" =>
              /\ volumes[last.vol].backup_id = 0
              /\ last.result = Wf_SUCCESS /\ last.ended
              /\ queue = {}

\* The scheduled check of a volume in deletion found it absent and ended an
\* expiring volume's run with success.
C5_Witness ==
    /\ last.step = "_wait_until_volume_is_deleted"
    /\ last.obs.answer = "False"
    /\ run.stage0 = EXP_EXPIRING
    /\ volumes[last.vol].expiration = EXP_EXPIRY_COMPLETED

\* C6: delete_vm_worker does not record the instance as gone (the call
\* instance.error("Nova instance is missing", gone=True)) when
\* is_server_created answered None.
C6_GoneOnlyWhenConfirmedAbsent ==
    (last.step = "delete_vm_worker" /\ last.obs.answer = None)
    => /\ instances[last.inst].error_message # "Nova instance is missing"
       /\ ~instances[last.inst].deleted

\* C7: deleting an absent resource reports success.  With the server absent
\* delete_server answers True and delete_instance returns True, for every
\* Instance row, deleted or not, and again when repeated; with the volume
\* absent delete_volume returns True.
C7_DeleteOfAbsentSucceeds ==
    /\ delete_server("NotFound") = "True"
    /\ cloud_delete_volume("NotFound") = "True"
    /\ \A i \in InstIds :
          instances[i].present =>
             /\ delete_instance(instances[i], "NotFound").ok
             /\ delete_instance(delete_instance(instances[i], "NotFound").row,
                                "NotFound").ok
    /\ \A v \in VolIds :
          volumes[v].present =>
             /\ delete_volume(volumes[v], "NotFound").ok
             /\ delete_volume(delete_volume(volumes[v], "NotFound").row,
                              "NotFound").ok
    /\ (/\ last.step = "_check_instance_is_shutoff_and_delete"
        /\ last.obs.provider = "NotFound")
       => /\ last.result = Wf_CONTINUE
          /\ instances[last.inst].marked_for_deletion
    /\ (last.calls = <<"delete_volume">> /\ last.obs.provider = "NotFound")
       => /\ last.result # Wf_FAIL
          /\ volumes[last.vol].deleted

\* The delete step ran on an Instance already recorded as deleted, with the
\* server absent, and went on to the disposal of the volume.
C7_Witness ==
    /\ last.step = "_check_instance_is_shutoff_and_delete"
    /\ last.obs.provider = "NotFound"
    /\ instances[last.inst].deleted
    /\ \E j \in queue : j.func = "_dispose_volume_once_instance_is_deleted"

C9_OneActiveVolume ==
    /\ Cardinality(ActiveVolumes(volumes)) <= 1
    /\ (last.step = "launch_vm_worker" /\ last.calls = <<"create_volume">>)
       => ActiveVolumes(volumes) = {last.vol}

\* A launch found the active Volume of a shelved desktop and went on with
\* it, persisting no other row.
C9_Witness ==
    /\ last.step = "launch_vm_worker"
    /\ ActiveVolumes(volumes) = {last.vol}
    /\ \E j \in queue : j.func = "wait_to_create_instance" /\ j.vol = last.vol
    /\ Cardinality({v \in VolIds : volumes[v].present}) = 1

\* C10: a launch for a user without an active Volume and without a desktop,
\* with a source volume to clone, makes one create_volume call, persists one
\* new Volume row and enqueues wait_to_create_instance; the delivery of
\* wait_to_create_instance that sees the volume AVAILABLE creates one
\* Instance on it and enqueues wait_for_instance_active.
C10_LaunchCreatesVolumeThenInstance ==
    [][/\ (/\ last'.step = "launch_vm_worker"
           /\ run'.n # run.n
           /\ get_volume(volumes) = 0
           /\ get_instance(instances) = 0
           /\ last'.obs.provider = "ok")
          => /\ last'.calls = <<"create_volume">>
             /\ Cardinality({v \in VolIds : volumes'[v].present})
                = Cardinality({v \in VolIds : volumes[v].present}) + 1
             /\ \E j \in queue' : j.func = "wait_to_create_instance"
       /\ (/\ last'.step = "wait_to_create_instance"
           /\ last'.obs.status = "AVAILABLE"
           /\ queue' # queue)
          => /\ Cardinality(LiveInstances(instances'))
                = Cardinality(LiveInstances(instances)) + 1
             /\ instances'[last'.inst].boot_volume = last'.vol
             /\ \E j \in queue' : j.func = "wait_for_instance_active"
      ]_vars

\* C11: a launch for a user who has a live Instance whose VMStatus is not
\* NO_VM raises at once and has no effect: no connector call, no row
\* created or changed, nothing enqueued.
C11_ConflictingLaunchHasNoEffect ==
    [][(/\ last'.step = "launch_vm_worker"
        /\ run'.n # run.n
        /\ get_instance(instances) # 0
        /\ vm_status.status # NO_VM)
       => (/\ last'.result = "raise"
           /\ last'.calls = <<>>
           /\ volumes' = volumes
           /\ instances' = instances
           /\ vm_status' = vm_status
           /\ queue' = {})]_vars

\* A launch was refused for a user with a live Instance on an active Volume.
C11_Witness ==
    /\ last.step = "launch_vm_worker"
    /\ last.result = "raise"
    /\ last.inst # 0 /\ ~instances[last.inst].deleted
    /\ vm_status.status # NO_VM
    /\ ActiveVolumes(volumes) # {}
    /\ last.obs = NoObs

\* ------------------------------------------------------- duplicate delivery
\* The scheduler hands a callback it has already delivered to a worker once
\* more, with the same arguments, right after the first delivery:
\* wait_to_create_instance after the delivery that created the instance,
\* _check_instance_is_shutoff_and_delete (with its retries used up) after the
\* delivery that deleted the server.
redeliver_wait_to_create_instance ==
    /\ last.step = "wait_to_create_instance"
    /\ last.calls = <<"create_server">>
    /\ \E i \in InstIds : ~instances[i].present
    /\ Cardinality(queue) = 1
    /\ LET job == Job("wait_to_create_instance", 0, last.vol, 0, FALSE,
                      0, 0, 0)
       IN  /\ job \notin queue
           /\ queue' = queue \cup {job}
    /\ UNCHANGED <<volumes, instances, vm_status, now, last, run>>

redeliver_check_instance_is_shutoff_and_delete ==
    /\ last.step = "_check_instance_is_shutoff_and_delete"
    /\ run.checks <= INSTANCE_CHECK_SHUTOFF_RETRY_COUNT + 1
    /\ last.calls = <<"delete_server">>
    /\ last.obs.provider = "ok"
    /\ \E next \in queue :
          /\ queue = {next}
          /\ next.func = "_dispose_volume_once_instance_is_deleted"
          /\ next.inst = last.inst
          /\ LET job == Job("_check_instance_is_shutoff_and_delete",
                            last.inst, last.vol, 0, next.archive,
                            0, 0, next.retries)
             IN  queue' = queue \cup {job}
    /\ UNCHANGED <<volumes, instances, vm_status, now, last, run>>

NextDup ==
    \/ Next
    \/ redeliver_wait_to_create_instance
    \/ redeliver_check_instance_is_shutoff_and_delete

SpecDup == Init /\ [][NextDup]_vars

\* C12: a step delivered a second time with the same arguments leaves the
\* persisted records as the first delivery left them and adds no remote
\* effect: the second wait_to_create_instance that sees the volume AVAILABLE
\* creates no Instance and makes no create_server call, and the second
\* _check_instance_is_shutoff_and_delete changes no row.
C12_DuplicateDeliveryIsIdempotent ==
    [][/\ (/\ last.step = "wait_to_create_instance"
           /\ last.calls = <<"create_server">>
           /\ last'.step = "wait_to_create_instance"
           /\ last'.vol = last.vol
           /\ last'.obs.status = "AVAILABLE"
           /\ run'.n = run.n
           /\ queue' # queue)
          => /\ last'.calls = <<>>
             /\ instances' = instances
             /\ volumes' = volumes
             /\ vm_status' = vm_status
       /\ (/\ last.step = "_check_instance_is_shutoff_and_delete"
           /\ last.calls = <<"delete_server">>
           /\ last.result = Wf_CONTINUE
           /\ last'.step = "_check_instance_is_shutoff_and_delete"
           /\ last'.inst = last.inst
           /\ run'.n = run.n
           /\ queue' # queue)
          => /\ instances' = instances
             /\ volumes' = volumes
             /\ vm_status' = vm_status
      ]_vars

\* ------------------------------------------------ order of writes and enqueue
\* archive_volume_worker at the point where wait_for_backup has just been
\* enqueued: the volume is marked, the backup is started, and the lines that
\* follow the enqueue call have not run yet.
archive_volume_worker_enqueued(v, row, vs, cloud, t) ==
    [archive_volume_worker(v, row, vs, cloud, t)
        EXCEPT !.vm_status = vs, !.result = "running"]

\* archive_expired_volume up to the enqueue call of archive_volume_worker.
archive_expired_volume_enqueued(v) ==
    /\ Idle
    /\ volumes[v].present /\ ~volumes[v].deleted
    /\ vm_status.status = VM_SHELVED
    /\ LET cloud == [p |-> "ok", status |-> "AVAILABLE", backup_ok |-> TRUE,
                     backup |-> v]
           e == archive_volume_worker_enqueued(v, volumes[v], vm_status,
                                               cloud, 0)
       IN  Apply("archive_expired_volume", 0, v,
                 Obs(is_created(cloud.p), cloud.status, "NA"),
                 e, {}, StartRun("archive", v))
    /\ now' = 0
    /\ UNCHANGED instances

\* The rest of the step, from the line after the enqueue call to the return.
archive_expired_volume_resumed ==
    /\ last.step = "archive_expired_volume"
    /\ last.result = "running"
    /\ vm_status' = [vm_status EXCEPT !.status = NO_VM]
    /\ last' = [last EXCEPT !.result = Wf_CONTINUE]
    /\ UNCHANGED <<volumes, instances, queue, now, run>>

NextOrder ==
    \/ Next
    \/ \E v \in VolIds : archive_expired_volume_enqueued(v)
    \/ archive_expired_volume_resumed

SpecOrder == Init /\ [][NextOrder]_vars

\* C13: what a step does after it has enqueued its successor changes no
\* persisted record: all its writes are made before the enqueue call.
C13_WritesBeforeEnqueue ==
    [][(/\ last.result = "running"
        /\ last'.step = last.step
        /\ last'.result # "running"
        /\ run'.n = run.n)
       => (/\ volumes' = volumes
           /\ instances' = instances
           /\ vm_status' = vm_status)]_vars

\* C14: no step the scheduler delivers ends by raising: each one returns,
\* also after a failure it has recorded.
C14_ScheduledStepsNeverRaise ==
    last.step \in {"wait_to_create_instance",
                   "wait_for_instance_active",
                   "_check_instance_is_shutoff_and_delete",
                   "_dispose_volume_once_instance_is_deleted",
                   "_wait_until_volume_is_deleted",
                   "wait_for_backup",
                   "_wait_until_backup_is_deleted",
                   "archive_expired_volume"}
    => last.result # "raise"

\* C15: archive_expired_volume called for a volume whose VMStatus is not
\* VM_SHELVED returns WF_SKIP and archives nothing: the volume is not
\* marked, no backup is started, nothing is enqueued and no Expiration
\* stage changes.
C15_UnshelvedVolumeIsSkipped ==
    [][(/\ last'.step = "archive_expired_volume"
        /\ run'.n # run.n
        /\ vm_status.status # VM_SHELVED)
       => (/\ last'.result = Wf_SKIP
           /\ last'.calls = <<>>
           /\ volumes' = volumes
           /\ vm_status' = vm_status
           /\ queue' = {})]_vars

\* ------------------------------------------------------- status translation
\* Python values that meet in a dictionary lookup, as <<type, value>>: a str
\* and a member of an Enum class are never equal, whatever the member's value.
PyNone == <<"NoneType", "None">>

str(s) == <<"str", s>>

\* The Enum classes of the OpenStack connector: member name |-> member value.
OpenStackServerStatus ==
    [UNKNOWN |-> "UNKNOWN", ERROR |-> "ERROR", DELETED |-> "DELETED",
     ACTIVE |-> "ACTIVE", BUILD |-> "BUILD", REBUILD |-> "REBUILD",
     RESIZE |-> "RESIZE", VERIFY_RESIZE |-> "VERIFY_RESIZE",
     MIGRATING |-> "MIGRATING", RESCUE |-> "RESCUE",
     REVERT_RESIZE |-> "REVERT_RESIZE", SHELVED |-> "SHELVED",
     SHELVED_OFFLOADED |-> "SHELVED_OFFLOADED",
     SOFT_DELETED |-> "SOFT_DELETED", PAUSED |-> "PAUSED",
     SUSPENDED |-> "SUSPENDED", SHUTOFF |-> "SHUTOFF", REBOOT |-> "REBOOT",
     HARD_REBOOT |-> "HARD_REBOOT", PASSWORD |-> "PASSWORD"]

OpenStackVolumeStatus ==
    [CREATING |-> "creating", AVAILABLE |-> "available",
     IN_USE |-> "in-use", DELETING |-> "deleting", ERROR |-> "error",
     ERROR_DELETING |-> "error_deleting",
     ERROR_MANAGING |-> "error_managing",
     ERROR_RESTORING |-> "error_restoring",
     ERROR_BACKING_UP |-> "error_backing-up",
     ERROR_EXTENDING |-> "error_extending", MANAGING |-> "managing",
     ATTACHING |-> "attaching", DETACHING |-> "detaching",
     MAINTENANCE |-> "maintenance",
     RESTORING_BACKUP |-> "restoring-backup", RESERVED |-> "reserved",
     AWAITING_TRANSFER |-> "awaiting-transfer",
     BACKING_UP |-> "backing-up", DOWNLOADING |-> "downloading",
     UPLOADING |-> "uploading", RETYPING |-> "retyping",
     EXTENDING |-> "extending"]

\* The mapping tables: each is keyed by the members of the connector's Enum
\* class and assigns the internal member of the same name.
OS_SERVER_STATUS_MAPPING ==
    [k \in {<<"OpenStackServerStatus", n>> : n \in DOMAIN OpenStackServerStatus}
        |-> <<"ServerStatus", k[2]>>]

OS_VOLUME_STATUS_MAPPING ==
    [k \in {<<"OpenStackVolumeStatus", n>> : n \in DOMAIN OpenStackVolumeStatus}
        |-> <<"VolumeStatus", k[2]>>]

\* StatusMapper._get_mapped_status: dict.get, None when no key equals status.
_get_mapped_status(_status_mapping, status) ==
    IF status \in DOMAIN _status_mapping
    THEN _status_mapping[status]
    ELSE PyNone

\* StatusMapper.get_status: the mapped member, or the default when the lookup
\* gave None.
get_status(_status_mapping, _default_value, status) ==
    LET value == _get_mapped_status(_status_mapping, status)
    IN  IF value # PyNone THEN value ELSE _default_value

OS_SERVER_STATUS_MAPPER(status) ==
    get_status(OS_SERVER_STATUS_MAPPING, <<"ServerStatus", "UNKNOWN">>, status)

OS_VOLUME_STATUS_MAPPER(status) ==
    get_status(OS_VOLUME_STATUS_MAPPING, <<"VolumeStatus", "UNKNOWN">>, status)

\* What nova and cinder report in the status attribute: the strings of the
\* provider's vocabulary and one string outside of it.
NovaStatus ==
    {OpenStackServerStatus[n] : n \in DOMAIN OpenStackServerStatus}
    \cup {"NOSTATE"}

CinderStatus ==
    {OpenStackVolumeStatus[n] : n \in DOMAIN OpenStackVolumeStatus}
    \cup {"in_use"}

\* OpenStack.get_server_status for the server of Instance i whose nova
\* record carries the string status: the mapper is handed that string.  The
\* step records the string it was handed and the name of the member returned.
get_server_status(i, status) ==
    /\ instances[i].present
    /\ last' = Step("get_server_status", i, 0, Obs("NA", "NA", status),
                    OS_SERVER_STATUS_MAPPER(str(status))[2], <<>>, FALSE)
    /\ UNCHANGED <<volumes, instances, vm_status, queue, now, run>>

\* OpenStack.get_volume_status, likewise for the cinder record of Volume v.
get_volume_status(v, status) ==
    /\ volumes[v].present
    /\ last' = Step("get_volume_status", 0, v, Obs("NA", "NA", status),
                    OS_VOLUME_STATUS_MAPPER(str(status))[2], <<>>, FALSE)
    /\ UNCHANGED <<volumes, instances, vm_status, queue, now, run>>

NextStatus ==
    \/ \E i \in InstIds, status \in NovaStatus : get_server_status(i, status)
    \/ \E v \in VolIds, status \in CinderStatus : get_volume_status(v, status)

SpecStatus == Init /\ [][NextStatus]_vars

\* C16: status translation is total with an explicit default: for a remote
\* status string of the provider's vocabulary get_server_status and
\* get_volume_status return the internal member the mapping table assigns to
\* it (ACTIVE gives ServerStatus.ACTIVE, available gives
\* VolumeStatus.AVAILABLE), and for any other string they return UNKNOWN.
C16_StatusTranslationIsTotal ==
    /\ last.step = "get_server_status"
       => last.result =
            IF \E n \in DOMAIN OpenStackServerStatus :
                   OpenStackServerStatus[n] = last.obs.provider
            THEN LET n == CHOOSE n \in DOMAIN OpenStackServerStatus :
                              OpenStackServerStatus[n] = last.obs.provider
                 IN  OS_SERVER_STATUS_MAPPING[<<"OpenStackServerStatus", n>>][2]
            ELSE "UNKNOWN"
    /\ last.step = "get_volume_status"
       => last.result =
            IF \E n \in DOMAIN OpenStackVolumeStatus :
                   OpenStackVolumeStatus[n] = last.obs.provider
            THEN LET n == CHOOSE n \in DOMAIN OpenStackVolumeStatus :
                              OpenStackVolumeStatus[n] = last.obs.provider
                 IN  OS_VOLUME_STATUS_MAPPING[<<"OpenStackVolumeStatus", n>>][2]
            ELSE "UNKNOWN"

\* ---------------------------------------------------------- resize workflow
VM_ERROR == "VM_ERROR"
VM_RESIZING == "VM_RESIZING"
VM_SUPERSIZED == "VM_SUPERSIZED"

\* The time a resize is given to finish (vm_manager.constants
\* RESIZE_CONFIRM_WAIT_SECONDS), in clock ticks.
RESIZE_CONFIRM_WAIT_SECONDS == 1

\* The two flavors of a desktop type.
Flavors == {"default_flavor", "big_flavor"}

\* The server of an Instance as _wait_to_confirm_resize is shown it: the
\* status call answers with a remote status and the flavor call with a
\* flavor, or the call raises.
ResizeViews ==
    {[p |-> "ClientException", status |-> "NA", flavor |-> "NA"]}
    \cup {[p |-> "ok", status |-> s, flavor |-> f]
          : s \in {"VERIFY_RESIZE", "RESIZE", "ACTIVE", "SHUTOFF"},
            f \in Flavors}

\* The confirmation step as enqueued: its instance, target flavor and
\* deadline.
ResizeJob(inst, flavor, deadline) ==
    [func |-> "_wait_to_confirm_resize", inst |-> inst, flavor |-> flavor,
     deadline |-> deadline]

\* What a resize step decides: the string it returns, the VMStatus status it
\* saves (None: the row is left alone), the remote calls it makes and
\* whether it enqueues _wait_to_confirm_resize.
ResizeDecision(result, status, calls, again) ==
    [result |-> result, status |-> status, calls |-> calls, again |-> again]

\* A faulty _resize_vm: the flavors are not compared.
_resize_vm_always_resizes(flavor, current_flavor) ==
    ResizeDecision("resize_result", None, <<"resize">>, TRUE)

\* _resize_vm, given the target flavor and the flavor the remote server has.
_resize_vm(flavor, current_flavor) ==
    IF current_flavor = flavor
    THEN ResizeDecision("already has flavor. Skipping the resize.", None,
                        <<>>, FALSE)
    ELSE ResizeDecision("resize_result", None, <<"resize">>, TRUE)

\* A faulty _wait_to_confirm_resize: a server still in RESIZE is waited for
\* whatever the clock says.
_wait_to_confirm_resize_ignores_deadline(flavor, deadline, clock, server) ==
    CASE server.p # "ok" ->
            ResizeDecision(None, None, <<>>, FALSE)
      [] server.p = "ok" /\ server.status = "VERIFY_RESIZE" ->
            ResizeDecision(VM_OKAY, VM_OKAY, <<"confirm_resize">>, FALSE)
      [] server.p = "ok" /\ server.status = "RESIZE" ->
            ResizeDecision(VM_RESIZING, None, <<>>, TRUE)
      [] server.p = "ok" /\ server.status = "ACTIVE"
         /\ server.flavor = flavor ->
            ResizeDecision("confirmed automatically", VM_SUPERSIZED,
                           <<>>, FALSE)
      [] server.p = "ok" /\ server.status = "ACTIVE"
         /\ server.flavor # flavor ->
            ResizeDecision("resize failed as instance hasn't changed flavor",
                           VM_ERROR, <<>>, FALSE)
      [] OTHER ->
            ResizeDecision("resize failed instance in state", VM_ERROR,
                           <<>>, FALSE)

\* A faulty _wait_to_confirm_resize: a server still in RESIZE is waited for,
\* but the step is not enqueued again.
_wait_to_confirm_resize_drops_deadline(flavor, deadline, clock, server) ==
    CASE server.p # "ok" ->
            ResizeDecision(None, None, <<>>, FALSE)
      [] server.p = "ok" /\ server.status = "VERIFY_RESIZE" ->
            ResizeDecision(VM_OKAY, VM_OKAY, <<"confirm_resize">>, FALSE)
      [] server.p = "ok" /\ server.status = "RESIZE" /\ clock < deadline ->
            ResizeDecision(VM_RESIZING, None, <<>>, FALSE)
      [] server.p = "ok" /\ server.status = "ACTIVE"
         /\ server.flavor = flavor ->
            ResizeDecision("confirmed automatically", VM_SUPERSIZED,
                           <<>>, FALSE)
      [] server.p = "ok" /\ server.status = "ACTIVE"
         /\ server.flavor # flavor ->
            ResizeDecision("resize failed as instance hasn't changed flavor",
                           VM_ERROR, <<>>, FALSE)
      [] OTHER ->
            ResizeDecision("resize failed instance in state", VM_ERROR,
                           <<>>, FALSE)

\* A faulty _wait_to_confirm_resize: VERIFY_RESIZE is taken for a finished
\* resize and confirm_resize is not called.
_wait_to_confirm_resize_without_confirm(flavor, deadline, clock, server) ==
    CASE server.p # "ok" ->
            ResizeDecision(None, None, <<>>, FALSE)
      [] server.p = "ok" /\ server.status = "VERIFY_RESIZE" ->
            ResizeDecision(VM_OKAY, VM_OKAY, <<>>, FALSE)
      [] server.p = "ok" /\ server.status = "RESIZE" /\ clock < deadline ->
            ResizeDecision(VM_RESIZING, None, <<>>, TRUE)
      [] server.p = "ok" /\ server.status = "ACTIVE"
         /\ server.flavor = flavor ->
            ResizeDecision("confirmed automatically", VM_SUPERSIZED,
                           <<>>, FALSE)
      [] server.p = "ok" /\ server.status = "ACTIVE"
         /\ server.flavor # flavor ->
            ResizeDecision("resize failed as instance hasn't changed flavor",
                           VM_ERROR, <<>>, FALSE)
      [] OTHER ->
            ResizeDecision("resize failed instance in state", VM_ERROR,
                           <<>>, FALSE)

\* A faulty _wait_to_confirm_resize: an ACTIVE server with the target flavor
\* is confirmed like one in VERIFY_RESIZE.
_wait_to_confirm_resize_confirms_active(flavor, deadline, clock, server) ==
    CASE server.p # "ok" ->
            ResizeDecision(None, None, <<>>, FALSE)
      [] server.p = "ok" /\ server.status = "VERIFY_RESIZE" ->
            ResizeDecision(VM_OKAY, VM_OKAY, <<"confirm_resize">>, FALSE)
      [] server.p = "ok" /\ server.status = "RESIZE" /\ clock < deadline ->
            ResizeDecision(VM_RESIZING, None, <<>>, TRUE)
      [] server.p = "ok" /\ server.status = "ACTIVE"
         /\ server.flavor = flavor ->
            ResizeDecision(VM_OKAY, VM_OKAY, <<"confirm_resize">>, FALSE)
      [] server.p = "ok" /\ server.status = "ACTIVE"
         /\ server.flavor # flavor ->
            ResizeDecision("resize failed as instance hasn't changed flavor",
                           VM_ERROR, <<>>, FALSE)
      [] OTHER ->
            ResizeDecision("resize failed instance in state", VM_ERROR,
                           <<>>, FALSE)

\* A faulty _wait_to_confirm_resize: a raising remote call is handled like
\* an unexpected status.
_wait_to_confirm_resize_error_is_failure(flavor, deadline, clock, server) ==
    CASE server.p # "ok" ->
            ResizeDecision("resize failed instance in state", VM_ERROR,
                           <<>>, FALSE)
      [] server.p = "ok" /\ server.status = "VERIFY_RESIZE" ->
            ResizeDecision(VM_OKAY, VM_OKAY, <<"confirm_resize">>, FALSE)
      [] server.p = "ok" /\ server.status = "RESIZE" /\ clock < deadline ->
            ResizeDecision(VM_RESIZING, None, <<>>, TRUE)
      [] server.p = "ok" /\ server.status = "ACTIVE"
         /\ server.flavor = flavor ->
            ResizeDecision("confirmed automatically", VM_SUPERSIZED,
                           <<>>, FALSE)
      [] server.p = "ok" /\ server.status = "ACTIVE"
         /\ server.flavor # flavor ->
            ResizeDecision("resize failed as instance hasn't changed flavor",
                           VM_ERROR, <<>>, FALSE)
      [] OTHER ->
            ResizeDecision("resize failed instance in state", VM_ERROR,
                           <<>>, FALSE)

\* _wait_to_confirm_resize, given the target flavor, the deadline, the clock
\* and what the server shows.
_wait_to_confirm_resize(flavor, deadline, clock, server) ==
    CASE server.p # "ok" ->
            ResizeDecision(None, None, <<>>, FALSE)
      [] server.p = "ok" /\ server.status = "VERIFY_RESIZE" ->
            ResizeDecision(VM_OKAY, VM_OKAY, <<"confirm_resize">>, FALSE)
      [] server.p = "ok" /\ server.status = "RESIZE" /\ clock < deadline ->
            ResizeDecision(VM_RESIZING, None, <<>>, TRUE)
      [] server.p = "ok" /\ server.status = "ACTIVE"
         /\ server.flavor = flavor ->
            ResizeDecision("confirmed automatically", VM_SUPERSIZED,
                           <<>>, FALSE)
      [] server.p = "ok" /\ server.status = "ACTIVE"
         /\ server.flavor # flavor ->
            ResizeDecision("resize failed as instance hasn't changed flavor",
                           VM_ERROR, <<>>, FALSE)
      [] OTHER ->
            ResizeDecision("resize failed instance in state", VM_ERROR,
                           <<>>, FALSE)

\* The shared resize step as a supersize or downsize worker calls it for the
\* live Instance i, whose VMStatus the caller has set to VM_RESIZING.
call_resize_vm(i, flavor) ==
    /\ Idle
    /\ i \in LiveInstances(instances)
    /\ vm_status.status = VM_RESIZING
    /\ vm_status.instance = i
    /\ \E current_flavor \in Flavors :
          LET d == _resize_vm(flavor, current_flavor)
          IN  /\ queue' = IF d.again
                          THEN {ResizeJob(i, flavor,
                                          RESIZE_CONFIRM_WAIT_SECONDS)}
                          ELSE {}
              /\ last' = Step("_resize_vm", i, instances[i].boot_volume,
                              Obs(current_flavor, "NA", "ok"),
                              d.result, d.calls, FALSE)
    /\ run' = StartRun("resize", instances[i].boot_volume)
    /\ now' = 0
    /\ UNCHANGED <<volumes, instances, vm_status>>

\* The scheduler delivers _wait_to_confirm_resize.  A hard failure goes
\* through VMStatus.error: VM_ERROR on the VMStatus and the message on the
\* Instance and on its boot Volume.
deliver_wait_to_confirm_resize(job) ==
    /\ job.func = "_wait_to_confirm_resize"
    /\ \E server \in ResizeViews :
          LET d == _wait_to_confirm_resize(job.flavor, job.deadline, now,
                                           server)
              i == job.inst
              v == instances[i].boot_volume
              failed == d.status = VM_ERROR
          IN  /\ queue' = IF d.again THEN queue ELSE queue \ {job}
              /\ vm_status' = IF d.status = None THEN vm_status
                              ELSE [vm_status EXCEPT !.status = d.status]
              /\ instances' = IF failed
                              THEN [instances EXCEPT
                                      ![i] = error(@, d.result, FALSE)]
                              ELSE instances
              /\ volumes' = IF failed
                            THEN [volumes EXCEPT
                                    ![v] = error(@, d.result, FALSE)]
                            ELSE volumes
              /\ last' = Step("_wait_to_confirm_resize", i, v,
                              Obs(server.flavor, server.status, server.p),
                              d.result, d.calls, FALSE)
    /\ UNCHANGED <<now, run>>

\* The store when a resize worker is delivered: a running desktop whose
\* VMStatus the caller has set to VM_RESIZING.
ResizeStores ==
    {[s EXCEPT !.vm_status.status = VM_RESIZING]
     : s \in {t \in Stores : /\ get_instance(t.instances) # 0
                             /\ t.vm_status.status = VM_OKAY}}

InitResize ==
    /\ \E s \in ResizeStores :
          /\ volumes = s.volumes
          /\ instances = s.instances
          /\ vm_status = s.vm_status
    /\ queue = {}
    /\ now = 0
    /\ last = NoStep
    /\ run = NoRun

NextResize ==
    \/ \E i \in InstIds, flavor \in Flavors : call_resize_vm(i, flavor)
    \/ \E job \in queue : deliver_wait_to_confirm_resize(job)
    \/ Tick

SpecResize == InitResize /\ [][NextResize]_vars

\* C17: _resize_vm invoked with the flavor the remote server already has
\* returns the "already has flavor ... Skipping the resize" result, makes no
\* remote resize call and schedules no confirmation step; with a different
\* flavor it makes exactly one remote resize call and schedules exactly one
\* _wait_to_confirm_resize.
C17_ResizeNoOp ==
    [][\A i \in InstIds, flavor \in Flavors :
         call_resize_vm(i, flavor)
         => IF last'.obs.answer = flavor
            THEN /\ last'.result = "already has flavor. Skipping the resize."
                 /\ last'.calls = <<>>
                 /\ queue' = {}
            ELSE /\ last'.calls = <<"resize">>
                 /\ Cardinality(queue') = 1
                 /\ \A job \in queue' :
                       /\ job.func = "_wait_to_confirm_resize"
                       /\ job.inst = i
                       /\ job.flavor = flavor]_vars

\* _resize_vm has skipped a resize to the flavor the server already has.
C17_Witness ==
    /\ last.step = "_resize_vm"
    /\ last.result = "already has flavor. Skipping the resize."
    /\ last.obs.answer \in Flavors
    /\ queue = {}

\* C18: _wait_to_confirm_resize fails hard when the server is in RESIZE and
\* the deadline has passed, when it is ACTIVE with a flavor other than the
\* target, and when it is in any other unexpected status such as SHUTOFF:
\* it returns an error string, sets VMStatus to VM_ERROR, records that
\* string as error_message of the Instance and of its boot Volume, does not
\* call confirm_resize and schedules no further step.
C18_ResizeHardFailures ==
    [][\A job \in queue :
         (/\ deliver_wait_to_confirm_resize(job)
          /\ last'.obs.provider = "ok"
          /\ \/ last'.obs.status = "RESIZE" /\ ~(now < job.deadline)
             \/ last'.obs.status = "ACTIVE" /\ last'.obs.answer # job.flavor
             \/ last'.obs.status \notin {"VERIFY_RESIZE", "RESIZE", "ACTIVE"})
         => (/\ last'.result \in
                  {"resize failed instance in state",
                   "resize failed as instance hasn't changed flavor"}
             /\ vm_status'.status = VM_ERROR
             /\ instances'[job.inst].error_message = last'.result
             /\ volumes'[instances[job.inst].boot_volume].error_message
                  = last'.result
             /\ last'.calls = <<>>
             /\ queue' = {})]_vars

\* A resize that was still in RESIZE at its deadline has been failed.
C18_Witness ==
    /\ last.step = "_wait_to_confirm_resize"
    /\ last.obs.status = "RESIZE"
    /\ vm_status.status = VM_ERROR
    /\ instances[last.inst].error_message = "resize failed instance in state"
    /\ volumes[last.vol].error_message = "resize failed instance in state"
    /\ queue = {}

\* C19: _wait_to_confirm_resize shown a server in RESIZE before the deadline
\* schedules exactly one further _wait_to_confirm_resize with the same
\* instance, target flavor and deadline, does not call confirm_resize, and
\* leaves VMStatus at VM_RESIZING with no error recorded.
C19_ResizeInProgressReschedules ==
    [][\A job \in queue :
         (/\ deliver_wait_to_confirm_resize(job)
          /\ last'.obs.provider = "ok"
          /\ last'.obs.status = "RESIZE"
          /\ now < job.deadline)
         => (/\ queue' = {job}
             /\ last'.calls = <<>>
             /\ vm_status' = vm_status
             /\ vm_status'.status = VM_RESIZING
             /\ instances' = instances
             /\ volumes' = volumes
             /\ instances'[job.inst].error_message = "")]_vars

\* The confirmation step found the server in RESIZE and is enqueued again.
C19_Witness ==
    /\ last.step = "_wait_to_confirm_resize"
    /\ last.obs.status = "RESIZE"
    /\ last.result = VM_RESIZING
    /\ vm_status.status = VM_RESIZING
    /\ \E job \in queue : job.inst = last.inst /\ now < job.deadline

\* C20: _wait_to_confirm_resize shown a server in VERIFY_RESIZE calls the
\* remote confirm_resize exactly once for that instance, marks VMStatus
\* VM_OKAY and schedules no further step.
C20_VerifyResizeIsConfirmed ==
    [][\A job \in queue :
         (/\ deliver_wait_to_confirm_resize(job)
          /\ last'.obs.provider = "ok"
          /\ last'.obs.status = "VERIFY_RESIZE")
         => (/\ last'.calls = <<"confirm_resize">>
             /\ last'.inst = job.inst
             /\ vm_status'.status = VM_OKAY
             /\ queue' = {})]_vars

\* A resize has been confirmed.
C20_Witness ==
    /\ last.step = "_wait_to_confirm_resize"
    /\ last.obs.status = "VERIFY_RESIZE"
    /\ last.calls = <<"confirm_resize">>
    /\ vm_status.status = VM_OKAY
    /\ queue = {}

\* C21: _wait_to_confirm_resize shown an ACTIVE server whose flavor already
\* is the target flavor treats the resize as confirmed automatically: it
\* marks VMStatus VM_SUPERSIZED, does not call confirm_resize, records no
\* error and schedules no further step.
C21_ActiveWithTargetFlavorIsSupersized ==
    [][\A job \in queue :
         (/\ deliver_wait_to_confirm_resize(job)
          /\ last'.obs.provider = "ok"
          /\ last'.obs.status = "ACTIVE"
          /\ last'.obs.answer = job.flavor)
         => (/\ vm_status'.status = VM_SUPERSIZED
             /\ last'.result = "confirmed automatically"
             /\ last'.calls = <<>>
             /\ instances' = instances
             /\ volumes' = volumes
             /\ queue' = {})]_vars

\* A resize was found finished without a confirmation.
C21_Witness ==
    /\ last.step = "_wait_to_confirm_resize"
    /\ last.obs.status = "ACTIVE"
    /\ last.result = "confirmed automatically"
    /\ vm_status.status = VM_SUPERSIZED
    /\ queue = {}

\* C22: when the remote status or flavor call of _wait_to_confirm_resize
\* raises, the step stops: it returns no result, does not call
\* confirm_resize, does not enqueue itself again, and leaves VMStatus and
\* the error_message of Instance and Volume as they were.
C22_RaisingRemoteCallStopsSilently ==
    [][\A job \in queue :
         (/\ deliver_wait_to_confirm_resize(job)
          /\ last'.obs.provider # "ok")
         => (/\ last'.result = None
             /\ last'.calls = <<>>
             /\ queue' = {}
             /\ vm_status' = vm_status
             /\ instances' = instances
             /\ volumes' = volumes)]_vars

\* The remote call raised and the resize was left pending in VM_RESIZING.
C22_Witness ==
    /\ last.step = "_wait_to_confirm_resize"
    /\ last.obs.provider = "ClientException"
    /\ last.result = None
    /\ vm_status.status = VM_RESIZING
    /\ queue = {}

\* ------------------------------------------------------------ resize ledger
\* calculate_supersize_expiration_date: a supersize lasts DOWNSIZE_PERIOD
\* days from the given day.
calculate_supersize_expiration_date(date) == date + DOWNSIZE_PERIOD

\* A Resize row: the day it was requested, the day it expires, whether it
\* has been reverted, and the stage of its Expiration (None: it has none).
NewResize(requested) ==
    [requested |-> requested,
     expires |-> calculate_supersize_expiration_date(requested),
     reverted |-> FALSE, expiration |-> None]

\* Resize.objects.get_latest_resize: the position of the latest Resize row
\* of an Instance row (0: it has none).
get_latest_resize(row) == Len(row.resizes)

\* Mark the Resize rows of the Instance rows insts at the positions sel
\* (pairs of instance id and position) as reverted.
revert(insts, sel) ==
    [i \in InstIds |->
       [insts[i] EXCEPT !.resizes =
          [k \in 1..Len(insts[i].resizes) |->
             IF <<i, k>> \in sel
             THEN [insts[i].resizes[k] EXCEPT !.reverted = TRUE]
             ELSE insts[i].resizes[k]]]]

\* A faulty selection: the VMStatus is not looked at.
expired_supersized_any_status(insts, vs, today) ==
    {p \in InstIds \X (1..MaxResizes) :
        /\ insts[p[1]].present
        /\ p[2] <= Len(insts[p[1]].resizes)
        /\ insts[p[1]].resizes[p[2]].expires < today}

\* The Resize rows downsize_expired_supersized_vms selects: those whose
\* expiry has passed and whose Instance has a VMStatus of VM_SUPERSIZED.
expired_supersized(insts, vs, today) ==
    {p \in InstIds \X (1..MaxResizes) :
        /\ insts[p[1]].present
        /\ p[2] <= Len(insts[p[1]].resizes)
        /\ insts[p[1]].resizes[p[2]].expires < today
        /\ vs.instance = p[1]
        /\ vs.status = VM_SUPERSIZED}

\* The remote calls of n downsizes that each decide d.
Repeat(calls, n) == [k \in 1..(n * Len(calls)) |-> calls[1]]

\* downsize_expired_supersized_vms, the entry point of the scheduler's
\* tick: it reverts each selected Resize row, moves the VMStatus to
\* VM_RESIZING, calls _resize_vm with the default flavor once per row, and
\* returns the number of rows.
downsize_expired_supersized_vms ==
    /\ Idle
    /\ \E current_flavor \in Flavors :
          LET sel == expired_supersized(instances, vm_status, now)
              d == _resize_vm("default_flavor", current_flavor)
              i == vm_status.instance
          IN  /\ instances' = revert(instances, sel)
              /\ vm_status' = IF sel = {} THEN vm_status
                              ELSE [vm_status EXCEPT !.status = VM_RESIZING]
              /\ queue' = IF sel # {} /\ d.again
                          THEN {ResizeJob(i, "default_flavor",
                                          now + RESIZE_CONFIRM_WAIT_SECONDS)}
                          ELSE {}
              /\ last' = Step("downsize_expired_supersized_vms",
                              IF sel = {} THEN 0 ELSE i, 0,
                              IF sel = {} THEN NoObs
                              ELSE Obs(current_flavor, "NA", "ok"),
                              Cardinality(sel),
                              Repeat(d.calls, Cardinality(sel)), FALSE)
    /\ run' = StartRun("resize", 0)
    /\ UNCHANGED <<volumes, now>>

\* supersize_vm_worker: a new Resize row for the Instance, then _resize_vm
\* with the big flavor.  The caller has set the VMStatus to VM_RESIZING.
supersize_vm_worker(i) ==
    /\ Idle
    /\ i \in LiveInstances(instances)
    /\ vm_status.status = VM_RESIZING
    /\ vm_status.instance = i
    /\ Len(instances[i].resizes) < MaxResizes
    /\ \E current_flavor \in Flavors :
          LET d == _resize_vm("big_flavor", current_flavor)
          IN  /\ queue' = IF d.again
                          THEN {ResizeJob(i, "big_flavor",
                                          now + RESIZE_CONFIRM_WAIT_SECONDS)}
                          ELSE {}
              /\ last' = Step("supersize_vm_worker", i, 0,
                              Obs(current_flavor, "NA", "ok"),
                              d.result, d.calls, FALSE)
    /\ instances' = [instances EXCEPT ![i].resizes = Append(@, NewResize(now))]
    /\ run' = StartRun("resize", 0)
    /\ UNCHANGED <<volumes, vm_status, now>>

\* downsize_vm_worker: the latest Resize row of the Instance is marked
\* reverted (a missing row is logged only), then _resize_vm with the default
\* flavor.
downsize_vm_worker(i) ==
    /\ Idle
    /\ i \in LiveInstances(instances)
    /\ vm_status.status = VM_RESIZING
    /\ vm_status.instance = i
    /\ \E current_flavor \in Flavors :
          LET d == _resize_vm("default_flavor", current_flavor)
          IN  /\ queue' = IF d.again
                          THEN {ResizeJob(i, "default_flavor",
                                          now + RESIZE_CONFIRM_WAIT_SECONDS)}
                          ELSE {}
              /\ last' = Step("downsize_vm_worker", i, 0,
                              Obs(current_flavor, "NA", "ok"),
                              d.result, d.calls, FALSE)
    /\ instances' = revert(instances, {<<i, get_latest_resize(instances[i])>>})
    /\ run' = StartRun("resize", 0)
    /\ UNCHANGED <<volumes, vm_status, now>>

\* The current Resize of an Instance row: the position of its latest row
\* that is not reverted (0: it has none).
get_current_resize(row) ==
    LET open == {k \in 1..Len(row.resizes) : ~row.resizes[k].reverted}
    IN  IF open = {} THEN 0 ELSE CHOOSE k \in open : \A j \in open : j <= k

\* A faulty window check: no expiry is too far in the future.
too_far_in_future_never(expires, today) == FALSE

\* The window check of extend: the expiry lies beyond the maximum
\* look-ahead window.
too_far_in_future(expires, today) == expires > today + EXTENSION_WINDOW

\* extend, called with the id of an Instance row: an id of no row of the
\* user raises not-found; otherwise the current Resize is looked up, the
\* window is checked and expires is computed anew from today.
extend(i) ==
    /\ Idle
    /\ LET row == instances[i]
           k == get_current_resize(row)
       IN  IF ~row.present
           THEN /\ last' = Step("extend", i, 0, NoObs, "raise", <<>>, FALSE)
                /\ UNCHANGED instances
           ELSE IF k = 0
           THEN /\ last' = Step("extend", i, 0, NoObs,
                                "No Resize is current", <<>>, FALSE)
                /\ UNCHANGED instances
           ELSE IF too_far_in_future(row.resizes[k].expires, now)
           THEN /\ last' = Step("extend", i, 0, NoObs,
                                "date too far in future", <<>>, FALSE)
                /\ UNCHANGED instances
           ELSE /\ last' = Step("extend", i, 0, NoObs,
                                "Resize (Current)", <<>>, FALSE)
                /\ instances' =
                     [instances EXCEPT ![i].resizes[k].expires =
                        calculate_supersize_expiration_date(now)]
    /\ run' = StartRun("extend", 0)
    /\ UNCHANGED <<volumes, vm_status, queue, now>>

\* The Resize rows of an Instance before the first step: at most one row is
\* not reverted, and it is the latest.
Ledgers ==
    LET Row(e, r) == [NewResize(0) EXCEPT !.expires = e, !.reverted = r]
    IN  {<<>>}
        \cup {<<Row(e, r)>> : e \in 0..MaxClock, r \in BOOLEAN}
        \cup {<<Row(e1, TRUE), Row(e2, r)>>
              : e1 \in 0..MaxClock, e2 \in 0..MaxClock, r \in BOOLEAN}

\* The store when a step of the resize ledger is called: a running desktop
\* with its Resize rows, on any day.
InitLedger ==
    /\ \E s \in ResizeStores, l \in Ledgers,
          st \in {VM_OKAY, VM_SUPERSIZED, VM_RESIZING} :
          /\ s.volumes[1].expiration = None
          /\ volumes = s.volumes
          /\ instances = [s.instances EXCEPT ![1].resizes = l]
          /\ vm_status = [s.vm_status EXCEPT !.status = st]
    /\ queue = {}
    /\ now \in 0..MaxClock
    /\ last = NoStep
    /\ run = NoRun

NextLedger ==
    \/ downsize_expired_supersized_vms
    \/ \E i \in InstIds : supersize_vm_worker(i)
    \/ \E i \in InstIds : downsize_vm_worker(i)
    \/ \E i \in InstIds : extend(i)
    \/ \E job \in queue : deliver_wait_to_confirm_resize(job)
    \/ Tick

SpecLedger == InitLedger /\ [][NextLedger]_vars

\* C23: downsize_expired_supersized_vms returns exactly the number of
\* Resize rows whose expiry has passed and whose Instance has a VMStatus of
\* VM_SUPERSIZED; each such row is marked reverted, the VMStatus moves to
\* VM_RESIZING and exactly one downsize to the default flavor is started
\* per row; every other Resize row is left unchanged, and with no such row
\* the result is 0.
C23_DownsizeExpiredCountsAndReverts ==
    [][downsize_expired_supersized_vms
       => LET due == {p \in InstIds \X (1..MaxResizes) :
                        /\ instances[p[1]].present
                        /\ p[2] <= Len(instances[p[1]].resizes)
                        /\ instances[p[1]].resizes[p[2]].expires < now
                        /\ vm_status.instance = p[1]
                        /\ vm_status.status = VM_SUPERSIZED}
          IN  /\ last'.result = Cardinality(due)
              /\ \A i \in InstIds :
                    /\ Len(instances'[i].resizes) = Len(instances[i].resizes)
                    /\ \A k \in 1..Len(instances[i].resizes) :
                          IF <<i, k>> \in due
                          THEN instances'[i].resizes[k].reverted
                          ELSE instances'[i].resizes[k]
                                 = instances[i].resizes[k]
              /\ due # {}
                 => /\ vm_status'.status = VM_RESIZING
                    /\ IF last'.obs.answer = "default_flavor"
                       THEN last'.calls = <<>> /\ queue' = {}
                       ELSE /\ Len(last'.calls) = Cardinality(due)
                            /\ \A job \in queue' :
                                  /\ job.flavor = "default_flavor"
                                  /\ job.inst = vm_status.instance
                            /\ queue' # {}
              /\ due = {}
                 => /\ last'.result = 0
                    /\ vm_status' = vm_status
                    /\ last'.calls = <<>>
                    /\ queue' = {}]_vars

\* The batch found one expired Resize of a supersized desktop, reverted it
\* and started the downsize.
C23_Witness ==
    /\ last.step = "downsize_expired_supersized_vms"
    /\ last.result = 1
    /\ last.calls = <<"resize">>
    /\ vm_status.status = VM_RESIZING
    /\ \E i \in InstIds : /\ instances[i].resizes # <<>>
                          /\ instances[i].resizes[1].reverted
    /\ queue # {}

\* C24: a rejected resize extension mutates nothing: extend raises
\* not-found for an unknown vm id, returns "No Resize is current" when the
\* Instance has no Resize or only reverted ones, and returns "date too far
\* in future" when the expiry lies beyond the maximum look-ahead window; in
\* all three cases no Resize row changes.  Only an accepted extension sets
\* expires to the supersize expiration computed from today.
C24_RejectedExtensionMutatesNothing ==
    [][\A i \in InstIds :
         extend(i)
         => LET rows == instances[i].resizes
                open == {k \in 1..Len(rows) : ~rows[k].reverted}
            IN  IF ~instances[i].present
                THEN last'.result = "raise" /\ instances' = instances
                ELSE IF open = {}
                THEN /\ last'.result = "No Resize is current"
                     /\ instances' = instances
                ELSE IF \A k \in open : rows[k].expires > now + EXTENSION_WINDOW
                THEN /\ last'.result = "date too far in future"
                     /\ instances' = instances
                ELSE /\ last'.result = "Resize (Current)"
                     /\ \E k \in open :
                           instances' =
                             [instances EXCEPT ![i].resizes[k].expires =
                                now + DOWNSIZE_PERIOD]]_vars

\* An extension was rejected because the expiry lies beyond the window, and
\* the Resize row still has that expiry.
C24_Witness ==
    /\ last.step = "extend"
    /\ last.result = "date too far in future"
    /\ \E k \in 1..Len(instances[last.inst].resizes) :
          /\ ~instances[last.inst].resizes[k].reverted
          /\ instances[last.inst].resizes[k].expires > now + EXTENSION_WINDOW

\* C25: each invocation of wait_to_create_instance does exactly one of
\* three things: (a) with the volume AVAILABLE it creates the Instance, sets
\* progress 50, clears the volume's shelved_at and schedules
\* wait_for_instance_active; (b) otherwise, with more than
\* VOLUME_CREATION_TIMEOUT elapsed since start_time, it sets VMStatus to
\* NO_VM, records the error on the Volume, raises the timeout and schedules
\* nothing; (c) otherwise it enqueues itself once with the same start_time
\* and changes no record.
C25_WaitToCreateInstanceBranches ==
    [][\A job \in queue :
         wait_to_create_instance(job)
         => IF last'.obs.status = "AVAILABLE"
            THEN \E i \in InstIds :
                    /\ ~instances[i].present
                    /\ instances' = [instances EXCEPT
                                       ![i] = NewInstance(job.vol)]
                    /\ vm_status'.instance = i
                    /\ vm_status'.status_progress = 50
                    /\ ~volumes'[job.vol].shelved_at
                    /\ queue' = (queue \ {job})
                                \cup {Job("wait_for_instance_active", i,
                                          job.vol, 0, FALSE, now, 0, 0)}
            ELSE IF now - job.time > VOLUME_CREATION_TIMEOUT
            THEN /\ vm_status'.status = NO_VM
                 /\ volumes'[job.vol].error_message
                      = "Volume took too long to create"
                 /\ last'.result = "raise"
                 /\ instances' = instances
                 /\ queue' = queue \ {job}
            ELSE /\ queue' = queue
                 /\ volumes' = volumes
                 /\ instances' = instances
                 /\ vm_status' = vm_status]_vars

\* C26: each invocation of wait_for_instance_active does exactly one of:
\* (a) with the instance ACTIVE it sets progress 75 and Instance.expires and
\* schedules nothing; (b) otherwise, with more than INSTANCE_LAUNCH_TIMEOUT
\* elapsed since start_time, it sets VMStatus to NO_VM, records the error on
\* the Instance and schedules nothing; (c) otherwise it enqueues itself once
\* with the same start_time.  Instance.expires is not set on (b) and (c).
C26_WaitForInstanceActiveBranches ==
    [][\A job \in queue :
         wait_for_instance_active(job)
         => IF last'.obs.status = "ACTIVE"
            THEN /\ vm_status'.status_progress = 75
                 /\ instances'[job.inst].expires
                 /\ queue' = queue \ {job}
            ELSE IF now - job.time > INSTANCE_LAUNCH_TIMEOUT
            THEN /\ vm_status'.status = NO_VM
                 /\ instances'[job.inst].error_message
                      = "Instance took too long to launch"
                 /\ instances'[job.inst].expires
                      = instances[job.inst].expires
                 /\ queue' = queue \ {job}
            ELSE /\ queue' = queue
                 /\ instances' = instances
                 /\ vm_status' = vm_status]_vars

\* The launch timed out: NO_VM, the error on the Instance, no expiry set.
C26_Witness ==
    /\ last.step = "wait_for_instance_active"
    /\ last.obs.status # "ACTIVE"
    /\ vm_status.status = NO_VM
    /\ instances[last.inst].error_message = "Instance took too long to launch"
    /\ ~instances[last.inst].expires
    /\ queue = {}

\* C27: _create_volume reuses an existing Volume only when the connector
\* confirms that it exists, its remote status is AVAILABLE, its remote zone
\* is the requested zone, the VMStatus is VM_SHELVED and archived_at is not
\* set; if any of these fails it returns no volume and never calls
\* create_volume, and launch_vm_worker then schedules nothing.
C27_ReuseOnlyHealthyShelvedVolume ==
    /\ get_volume(volumes) # 0
       => \A cloud \in LaunchInputs(get_volume(volumes)),
             status \in {NO_VM, VM_OKAY, VM_SHELVED, VM_WAITING},
             archived_at \in BOOLEAN :
             LET d == _create_volume(get_volume(volumes), cloud, status,
                                     archived_at)
             IN  IF /\ cloud.exist = "True"
                    /\ cloud.status = "AVAILABLE"
                    /\ cloud.zone_ok
                    /\ status = VM_SHELVED
                    /\ ~archived_at
                 THEN d.kind = "reuse"
                 ELSE d.kind = "none"
    /\ (last.step = "launch_vm_worker" /\ last.vol # 0)
       => /\ last.calls = <<>>
          /\ queue # {}
             => /\ last.obs.answer = "True"
                /\ last.obs.status = "AVAILABLE"
                /\ vm_status.status = VM_SHELVED
                /\ ~volumes[last.vol].archived_at
                /\ \A job \in queue : /\ job.func = "wait_to_create_instance"
                                      /\ job.vol = last.vol
          /\ (\/ last.obs.answer # "True"
              \/ last.obs.status # "AVAILABLE"
              \/ vm_status.status # VM_SHELVED
              \/ volumes[last.vol].archived_at)
             => queue = {}

\* A launch has handed a shelved, healthy Volume back for relaunch.
C27_Witness ==
    /\ last.step = "launch_vm_worker"
    /\ last.vol # 0
    /\ last.obs.answer = "True"
    /\ last.obs.status = "AVAILABLE"
    /\ vm_status.status = VM_SHELVED
    /\ \E job \in queue : job.vol = last.vol

\* ------------------------------------------------------ source volume lookup
\* Names are sequences of characters; the image name of the desktop type.
image_name == <<"u", "b">>

\* str.startswith.
startswith(name, prefix) ==
    /\ Len(name) >= Len(prefix)
    /\ SubSeq(name, 1, Len(prefix)) = prefix

\* int() of a metadata value, a sequence of decimal digits.
RECURSIVE int(_)
int(digits) ==
    IF digits = <<>> THEN 0
    ELSE 10 * int(SubSeq(digits, 1, Len(digits) - 1)) + digits[Len(digits)]

\* The sort key of a candidate: int(v.metadata.get('nectar_build', 0)); a
\* candidate without the key carries <<>>.
nectar_build(v) == IF v.nectar_build = <<>> THEN 0 ELSE int(v.nectar_build)

\* sorted(matches, key=nectar_build, reverse=True): descending, and stable
\* (candidates with the same key keep their order).
RECURSIVE sorted(_)
sorted(matches) ==
    IF matches = <<>> THEN <<>>
    ELSE LET front == sorted(SubSeq(matches, 1, Len(matches) - 1))
             v == matches[Len(matches)]
             p == Cardinality({k \in 1..Len(front) :
                                  nectar_build(front[k]) >= nectar_build(v)})
         IN  SubSeq(front, 1, p) \o <<v>> \o SubSeq(front, p + 1, Len(front))

\* A faulty _get_source_volume: every candidate the connector lists is taken
\* for a match.
_get_source_volume_no_prefix_filter(candidates) ==
    IF Len(candidates) < 1
    THEN [result |-> "raise", match |-> 0]
    ELSE [result |-> "None", match |-> sorted(candidates)[1].id]

\* _get_source_volume, given the list get_volume_list answered with: the
\* id of the volume returned (0 when it raises RuntimeWarning).
_get_source_volume(candidates) ==
    LET matches == sorted(SelectSeq(candidates,
                             LAMBDA v : startswith(v.name, image_name)))
    IN  IF Len(matches) < 1
        THEN [result |-> "raise", match |-> 0]
        ELSE [result |-> "None", match |-> matches[1].id]

\* The lists the connector can answer with: up to MaxCandidates volumes,
\* each with a name that has the image name as prefix, contains it
\* elsewhere or is shorter, and with a build of 9, of 10 or without one.
CandidateLists ==
    LET Names == {<<"u", "b">>, <<"u", "b", "2">>, <<"x", "u", "b">>, <<"u">>}
        Builds == {<<>>, <<9>>, <<1, 0>>}
        Shapes == [name : Names, nectar_build : Builds]
    IN  UNION {{[k \in 1..n |->
                   [id |-> k, name |-> s[k].name,
                    nectar_build |-> s[k].nectar_build]]
                : s \in [1..n -> Shapes]}
               : n \in 0..MaxCandidates}

\* launch_vm_worker looks the source volume up for a user without an active
\* Volume.  The step records the list it was shown and the id it got.
call_get_source_volume(candidates) ==
    /\ Idle
    /\ get_volume(volumes) = 0
    /\ LET r == _get_source_volume(candidates)
       IN  last' = Step("_get_source_volume", 0, r.match,
                        Obs(candidates, "NA", "ok"), r.result, <<>>, FALSE)
    /\ UNCHANGED <<volumes, instances, vm_status, queue, now, run>>

NextSource == \E candidates \in CandidateLists :
                 call_get_source_volume(candidates)

SpecSource == Init /\ [][NextSource]_vars

\* C28: among the candidates whose name starts with the image name,
\* _get_source_volume returns one with the highest numeric build (a missing
\* build counts as 0); a candidate whose name lacks the prefix is never
\* returned; with no candidate of that prefix it raises.
C28_SourceVolumeHasHighestBuild ==
    last.step = "_get_source_volume"
    => LET candidates == last.obs.answer
           Value(k) ==
               IF candidates[k].nectar_build = <<>> THEN 0
               ELSE IF Len(candidates[k].nectar_build) = 1
               THEN candidates[k].nectar_build[1]
               ELSE 10 * candidates[k].nectar_build[1]
                    + candidates[k].nectar_build[2]
           prefixed == {k \in 1..Len(candidates) :
                          /\ Len(candidates[k].name) >= 2
                          /\ candidates[k].name[1] = "u"
                          /\ candidates[k].name[2] = "b"}
       IN  IF prefixed = {}
           THEN last.result = "raise"
           ELSE /\ last.result = "None"
                /\ last.vol \in prefixed
                /\ \A k \in prefixed : Value(k) <= Value(last.vol)

\* A volume with build 10 was chosen over one with build 9.
C28_Witness ==
    /\ last.step = "_get_source_volume"
    /\ last.result = "None"
    /\ Len(last.obs.answer) = 2
    /\ last.obs.answer[last.vol].nectar_build = <<1, 0>>
    /\ \E k \in 1..2 : /\ k # last.vol
                       /\ last.obs.answer[k].nectar_build = <<9>>
                       /\ last.obs.answer[k].name = <<"u", "b">>

\* C29: delete_vm_worker detaches the gateway connection, then, for a server
\* the provider knows: ACTIVE issues stop_server and schedules the shutoff
\* check; SHUTOFF schedules the shutoff check without a call; any other
\* status records the error on the Instance and ends the step as a permanent
\* failure (WF_FAIL) with no call issued and no step scheduled.
C29_DeleteVmWorkerDispatch ==
    (last.step = "delete_vm_worker" /\ last.obs.answer = "True")
    => /\ ~instances[last.inst].guac_connection
       /\ last.obs.status = "ACTIVE"
          => /\ last.calls = <<"stop_server">>
             /\ last.result = Wf_CONTINUE
             /\ queue # {}
             /\ \A j \in queue :
                   /\ j.func = "_check_instance_is_shutoff_and_delete"
                   /\ j.inst = last.inst
                   /\ j.retries = INSTANCE_CHECK_SHUTOFF_RETRY_COUNT
       /\ last.obs.status = "SHUTOFF"
          => /\ last.calls = <<>>
             /\ last.result = Wf_CONTINUE
             /\ queue # {}
             /\ \A j \in queue :
                   /\ j.func = "_check_instance_is_shutoff_and_delete"
                   /\ j.inst = last.inst
                   /\ j.retries = INSTANCE_CHECK_SHUTOFF_RETRY_COUNT
       /\ last.obs.status \notin {"ACTIVE", "SHUTOFF"}
          => /\ instances[last.inst].error_message # ""
             /\ ~instances[last.inst].deleted
             /\ last.calls = <<>>
             /\ queue = {}
             /\ last.result = Wf_FAIL

\* C30: in one run _check_instance_is_shutoff_and_delete runs at most
\* INSTANCE_CHECK_SHUTOFF_RETRY_COUNT + 1 times; the invocation that sees the
\* server SHUTOFF, and the one that runs with no retry left, issue
\* delete_server themselves; an invocation that does not delete schedules
\* the next check with one retry fewer; and the step fails only when
\* delete_server did not answer True, never for want of retries.
C30_ShutoffCheckIsAdvisory ==
    /\ run.checks <= INSTANCE_CHECK_SHUTOFF_RETRY_COUNT + 1
    /\ last.step = "_check_instance_is_shutoff_and_delete"
       => /\ (\/ last.obs.status = "SHUTOFF"
              \/ run.checks = INSTANCE_CHECK_SHUTOFF_RETRY_COUNT + 1)
             => last.calls = <<"delete_server">>
          /\ last.calls = <<>>
             => /\ last.obs.status = "OTHER"
                /\ last.result = Wf_CONTINUE
                /\ \A j \in queue :
                      /\ j.func = "_check_instance_is_shutoff_and_delete"
                      /\ j.inst = last.inst
                      /\ j.retries
                         = INSTANCE_CHECK_SHUTOFF_RETRY_COUNT - run.checks
                      /\ j.retries >= 0
          /\ last.calls = <<"delete_server">>
             => IF last.obs.answer = "True"
                THEN /\ last.result = Wf_CONTINUE
                     /\ queue # {}
                     /\ \A j \in queue :
                           /\ j.func
                              = "_dispose_volume_once_instance_is_deleted"
                           /\ j.inst = last.inst
                ELSE last.result = Wf_FAIL /\ queue = {}

\* The last permitted check still found the server running, deleted it and
\* scheduled the disposal of the volume.
C30_Witness ==
    /\ last.step = "_check_instance_is_shutoff_and_delete"
    /\ run.checks = INSTANCE_CHECK_SHUTOFF_RETRY_COUNT + 1
    /\ last.obs.status = "OTHER"
    /\ last.calls = <<"delete_server">>
    /\ last.result = Wf_CONTINUE
    /\ \E j \in queue : j.func = "_dispose_volume_once_instance_is_deleted"

\* C31: when _wait_until_volume_is_deleted (volume still there and DELETING)
\* or _wait_until_backup_is_deleted (backup still there) runs with no retry
\* left, the run ends as a permanent failure: the result is WF_FAIL, an
\* Expiration that was EXP_EXPIRING is EXP_EXPIRY_FAILED, and nothing is
\* scheduled.
C31_PollingExhaustionIsPermanent ==
    (/\ \/ /\ last.step = "_wait_until_volume_is_deleted"
           /\ last.obs.status = "DELETING"
        \/ last.step = "_wait_until_backup_is_deleted"
     /\ last.obs.answer = "True"
     /\ \A j \in queue : j.func # last.step)
    => /\ queue = {}
       /\ last.ended
       /\ last.result = Wf_FAIL
       /\ run.stage0 = EXP_EXPIRING
          => volumes[last.vol].expiration = EXP_EXPIRY_FAILED

\* C32: in a run started by delete_vm_worker, a step that changes the Volume
\* row, calls delete_volume or create_volume_backup, or schedules the wait
\* for the volume's deletion or for its backup, is either the
\* _dispose_volume_once_instance_is_deleted that was answered False by
\* is_server_created, or a step that one scheduled; and after it every
\* Instance on the volume is recorded as deleted.
C32_VolumeDisposedAfterServerGone ==
    [][(/\ run'.kind = "delete"
        /\ last' # last
        /\ \/ volumes' # volumes
           \/ \E k \in 1..Len(last'.calls) :
                 last'.calls[k] \in {"delete_volume", "create_volume_backup"}
           \/ \E j \in queue' \ queue :
                 j.func \in {"_wait_until_volume_is_deleted",
                             "wait_for_backup"})
       => /\ \/ /\ last'.step = "_dispose_volume_once_instance_is_deleted"
                /\ last'.obs.answer = "False"
             \/ /\ last'.step \in {"_wait_until_volume_is_deleted",
                                   "wait_for_backup"}
                /\ \E j \in queue : j.func = last'.step
          /\ \A i \in InstIds :
                (instances'[i].present
                 /\ instances'[i].boot_volume = run'.vol)
                => instances'[i].deleted]_vars

\* The disposal step was answered False for the server in a delete run,
\* recorded the Instance as deleted and asked for the volume's deletion.
C32_Witness ==
    /\ run.kind = "delete"
    /\ last.step = "_dispose_volume_once_instance_is_deleted"
    /\ last.obs.answer = "False"
    /\ last.calls = <<"delete_volume">>
    /\ instances[last.inst].deleted
    /\ volumes[last.vol].deleted

\* C33: wait_for_backup calls delete_volume and records backup_id,
\* archived_at and the backup expiry exactly when it saw the backup
\* AVAILABLE; shown a backup that is BACKING_UP, missing, unknown or in
\* another state it makes no call and leaves the Volume row as it was, but
\* for the stage of its Expirations.  No other step of an archive sets
\* archived_at or calls delete_volume.
C33_VolumeDeletedOnlyAfterBackup ==
    [][/\ \A job \in queue :
             wait_for_backup(job)
             => LET v == job.vol
                    Rest(row) == [row EXCEPT !.expiration = None,
                                             !.backup_expiration = None]
                IN  IF /\ last'.obs.answer = "True"
                       /\ last'.obs.status = "AVAILABLE"
                    THEN /\ last'.calls = <<"delete_volume">>
                         /\ volumes'[v].backup_id = job.backup
                         /\ volumes'[v].archived_at
                         /\ volumes'[v].backup_expiration = EXP_INITIAL
                    ELSE /\ last'.calls = <<>>
                         /\ Rest(volumes'[v]) = Rest(volumes[v])
       /\ \A v \in VolIds :
             (\/ volumes'[v].archived_at /\ ~volumes[v].archived_at
              \/ volumes'[v].backup_id # 0 /\ volumes[v].backup_id = 0)
             => /\ last'.step = "wait_for_backup"
                /\ last'.obs.status = "AVAILABLE"
       /\ \A job \in queue :
             (_dispose_volume_once_instance_is_deleted(job) /\ job.archive)
             => \A k \in 1..Len(last'.calls) :
                   last'.calls[k] # "delete_volume"
       /\ (run'.kind = "archive" /\ last' # last
           /\ \E k \in 1..Len(last'.calls) : last'.calls[k] = "delete_volume")
          => /\ last'.step = "wait_for_backup"
             /\ last'.obs.status = "AVAILABLE"]_vars

\* wait_for_backup saw the backup AVAILABLE, recorded it and had the volume
\* deleted.
C33_Witness ==
    /\ last.step = "wait_for_backup"
    /\ last.obs.status = "AVAILABLE"
    /\ last.obs.provider = "ok"
    /\ last.calls = <<"delete_volume">>
    /\ volumes[last.vol].archived_at
    /\ volumes[last.vol].backup_id # 0
    /\ volumes[last.vol].deleted

\* ------------------------------------------------------------- termination
\* The clock of a run in progress keeps advancing until the deadline of a
\* pending wait_for_backup has passed.
TickPastDeadline ==
    /\ queue # {}
    /\ \/ now < MaxClock
       \/ \E j \in queue : j.func = "wait_for_backup" /\ now <= j.time
    /\ now' = now + 1
    /\ UNCHANGED <<volumes, instances, vm_status, queue, last, run>>

\* The scheduler hands a pending step of the delete / archive workflows to a
\* worker.
DeliverDelete ==
    \E job \in queue :
       \/ _check_instance_is_shutoff_and_delete(job)
       \/ _dispose_volume_once_instance_is_deleted(job)
       \/ deliver_wait_until_volume_is_deleted(job)
       \/ wait_for_backup(job)
       \/ _wait_until_backup_is_deleted(job)

NextTerm ==
    \/ \E i \in InstIds, archive \in BOOLEAN : delete_vm_worker(i, archive)
    \/ \E v \in VolIds : delete_volume_worker(v)
    \/ \E v \in VolIds : archive_expired_volume(v)
    \/ \E v \in VolIds : delete_backup_worker(v)
    \/ DeliverDelete
    \/ TickPastDeadline

\* The scheduler eventually fires a step it holds, and time passes.
SpecTerm ==
    Init /\ [][NextTerm]_vars /\ WF_vars(DeliverDelete)
         /\ WF_vars(TickPastDeadline)

\* C34: every run of the delete / archive workflows terminates: whatever
\* the provider answers, a state with a pending step is followed by a state
\* with none.
C34_DeleteRunTerminates == (queue # {}) ~> (queue = {})

\* A run was ended by wait_for_backup because the backup was still
\* BACKING_UP after the deadline.
C34_Witness ==
    /\ last.step = "wait_for_backup"
    /\ last.obs.status = "BACKING_UP"
    /\ last.result = Wf_RETRY
    /\ queue = {}
    /\ now > ARCHIVE_WAIT_SECONDS

\* ------------------------------------------------------------------- reboot
\* Remote power states and reboot levels (vm_manager.constants ACTIVE,
\* SHUTDOWN, REBOOT_SOFT, REBOOT_HARD).
ACTIVE == "ACTIVE"
SHUTDOWN == "SHUTDOWN"
REBOOT_SOFT == "SOFT"
REBOOT_HARD == "HARD"

\* The number of times the power state is checked again (vm_manager.constants
\* REBOOT_CONFIRM_RETRIES).
REBOOT_CONFIRM_RETRIES == 1

\* What n.nova.servers.get and nova_server.reboot can do in reboot_vm_worker:
\* servers.get raises NotFound or another exception, or answers with a
\* server in some status; reboot answers or raises.
RebootViews ==
    {[p |-> p, status |-> "NA", reboot_ok |-> TRUE]
     : p \in {"NotFound", "ClientException"}}
    \cup {[p |-> "ok", status |-> s, reboot_ok |-> TRUE]
          : s \in {ACTIVE, SHUTDOWN, "PAUSED"}}
    \cup {[p |-> "ok", status |-> ACTIVE, reboot_ok |-> FALSE]}

RebootJob(inst, retries) ==
    [func |-> "_check_power_state", inst |-> inst, retries |-> retries]

\* A faulty reboot_level_for: a SHUTDOWN server is rebooted at the level
\* asked for.
reboot_level_for_keeps_level(status, reboot_level) ==
    CASE status = ACTIVE -> reboot_level
      [] status = SHUTDOWN -> reboot_level
      [] OTHER -> None

\* The level reboot_vm_worker reboots with, or None when it does not reboot.
reboot_level_for(status, reboot_level) ==
    CASE status = ACTIVE -> reboot_level
      [] status = SHUTDOWN -> REBOOT_HARD
      [] OTHER -> None

reboot_vm_worker(i, reboot_level) ==
    /\ Idle
    /\ instances[i].present /\ ~instances[i].deleted
    /\ vm_status.instance = i
    /\ \E server \in RebootViews :
       LET v == instances[i].boot_volume
           level == reboot_level_for(server.status, reboot_level)
           obs == Obs("NA", server.status, server.p)
           name == "reboot_vm_worker"
           started == StartRun("reboot", 0)
       IN
       /\ now' = 0
       /\ IF server.p = "ClientException"
          THEN /\ last' = Step(name, i, v, obs, "raise", <<>>, FALSE)
               /\ run' = started
               /\ UNCHANGED <<volumes, instances, vm_status, queue>>
          ELSE IF server.p = "NotFound"
          THEN /\ instances' = [instances EXCEPT ![i] =
                      error(@, "Nova instance is missing", FALSE)]
               /\ last' = Step(name, i, v, obs, None, <<>>, FALSE)
               /\ run' = started
               /\ UNCHANGED <<volumes, vm_status, queue>>
          ELSE IF level = None
          THEN /\ instances' = [instances EXCEPT ![i] =
                      error(@, "Nova instance state is unexpected", FALSE)]
               /\ last' = Step(name, i, v, obs, None, <<>>, FALSE)
               /\ run' = started
               /\ UNCHANGED <<volumes, vm_status, queue>>
          ELSE IF ~server.reboot_ok
          THEN /\ volumes' = [volumes EXCEPT ![v].rebooted_at = TRUE]
               /\ last' = Step(name, i, v, obs, "raise", <<"reboot", level>>,
                               FALSE)
               /\ run' = started
               /\ UNCHANGED <<instances, vm_status, queue>>
          ELSE /\ volumes' = [volumes EXCEPT ![v].rebooted_at = TRUE]
               /\ vm_status' = [vm_status EXCEPT !.status_progress = 33]
               /\ queue' = {RebootJob(i, REBOOT_CONFIRM_RETRIES)}
               /\ last' = Step(name, i, v, obs, "reboot_result",
                               <<"reboot", level>>, FALSE)
               /\ run' = LogProgress(started, 33)
               /\ UNCHANGED instances

\* A faulty final_status: a Resize row counts whether reverted or not.
final_status_ignores_reverted(resize) ==
    IF resize # <<>> THEN VM_SUPERSIZED ELSE VM_OKAY

\* The status _check_power_state ends with, given the latest Resize row of
\* the instance (a sequence with that row, or empty when there is none).
final_status(resize) ==
    IF resize # <<>> /\ ~resize[1].reverted THEN VM_SUPERSIZED ELSE VM_OKAY

\* Whether _check_power_state calls end_resize.
ends_resize(resize) ==
    /\ resize # <<>>
    /\ resize[1].expiration # None
    /\ resize[1].expiration = EXP_EXPIRING

\* end_resize with WF_SUCCESS: the Expiration of the latest Resize row is
\* completed.
end_resize(row) ==
    [row EXCEPT !.resizes[Len(row.resizes)].expiration = EXP_EXPIRY_COMPLETED]

\* VMStatus.error: the status becomes VM_ERROR.
vm_status_error(vs) == [vs EXCEPT !.status = VM_ERROR]

\* A faulty _check_power_state: a check with no retry left still schedules
\* another one.
_check_power_state_checks_once_more(job) ==
    /\ job \in queue
    /\ job.func = "_check_power_state"
    /\ \E active \in BOOLEAN :
       LET i == job.inst
           v == instances[i].boot_volume
           name == "_check_power_state"
           k == get_latest_resize(instances[i])
           resize == IF k = 0 THEN <<>> ELSE <<instances[i].resizes[k]>>
           status == final_status(resize)
           msg == "Instance has not gone ACTIVE after reboot"
           obs == Obs("NA", IF active THEN ACTIVE ELSE "OTHER", "NA")
           counted == [run EXCEPT !.checks = @ + 1]
       IN
       /\ UNCHANGED now
       /\ IF active
          THEN /\ volumes' = [volumes EXCEPT ![v].ready = TRUE]
               /\ instances' = IF ends_resize(resize)
                               THEN [instances EXCEPT ![i] = end_resize(@)]
                               ELSE instances
               /\ vm_status' = [vm_status EXCEPT !.status_progress = 100,
                                                 !.status = status]
               /\ queue' = queue \ {job}
               /\ run' = LogProgress(LogProgress(counted, 66), 100)
               /\ last' = Step(name, i, v, obs, None,
                               IF ends_resize(resize)
                               THEN <<"end_resize">> ELSE <<>>,
                               FALSE)
          ELSE IF job.retries >= 0
          THEN /\ queue' = (queue \ {job})
                           \cup {RebootJob(i, job.retries - 1)}
               /\ run' = counted
               /\ last' = Step(name, i, v, obs, None, <<>>, FALSE)
               /\ UNCHANGED <<volumes, instances, vm_status>>
          ELSE /\ vm_status' = vm_status_error(vm_status)
               /\ instances' = [instances EXCEPT ![i] = error(@, msg, FALSE)]
               /\ volumes' = [volumes EXCEPT ![v] = error(@, msg, FALSE)]
               /\ queue' = queue \ {job}
               /\ run' = counted
               /\ last' = Step(name, i, v, obs, None, <<>>, FALSE)

_check_power_state(job) ==
    /\ job \in queue
    /\ job.func = "_check_power_state"
    /\ \E active \in BOOLEAN :
       LET i == job.inst
           v == instances[i].boot_volume
           name == "_check_power_state"
           k == get_latest_resize(instances[i])
           resize == IF k = 0 THEN <<>> ELSE <<instances[i].resizes[k]>>
           status == final_status(resize)
           msg == "Instance has not gone ACTIVE after reboot"
           obs == Obs("NA", IF active THEN ACTIVE ELSE "OTHER", "NA")
           counted == [run EXCEPT !.checks = @ + 1]
       IN
       /\ UNCHANGED now
       /\ IF active
          THEN /\ volumes' = [volumes EXCEPT ![v].ready = TRUE]
               /\ instances' = IF ends_resize(resize)
                               THEN [instances EXCEPT ![i] = end_resize(@)]
                               ELSE instances
               /\ vm_status' = [vm_status EXCEPT !.status_progress = 100,
                                                 !.status = status]
               /\ queue' = queue \ {job}
               /\ run' = LogProgress(LogProgress(counted, 66), 100)
               /\ last' = Step(name, i, v, obs, None,
                               IF ends_resize(resize)
                               THEN <<"end_resize">> ELSE <<>>,
                               FALSE)
          ELSE IF job.retries > 0
          THEN /\ queue' = (queue \ {job})
                           \cup {RebootJob(i, job.retries - 1)}
               /\ run' = counted
               /\ last' = Step(name, i, v, obs, None, <<>>, FALSE)
               /\ UNCHANGED <<volumes, instances, vm_status>>
          ELSE /\ vm_status' = vm_status_error(vm_status)
               /\ instances' = [instances EXCEPT ![i] = error(@, msg, FALSE)]
               /\ volumes' = [volumes EXCEPT ![v] = error(@, msg, FALSE)]
               /\ queue' = queue \ {job}
               /\ run' = counted
               /\ last' = Step(name, i, v, obs, None, <<>>, FALSE)

\* The Resize rows of an Instance before a reboot: at most one row is not
\* reverted, and it is the latest; each row has an Expiration in some stage
\* or none.
RebootLedgers ==
    LET Stages == {None, EXP_INITIAL, EXP_EXPIRING, EXP_EXPIRY_COMPLETED}
        Row(r, e) == [NewResize(0) EXCEPT !.reverted = r, !.expiration = e]
    IN  {<<>>}
        \cup {<<Row(r, e)>> : r \in BOOLEAN, e \in Stages}
        \cup {<<Row(TRUE, e1), Row(r, e2)>>
              : r \in BOOLEAN, e1 \in Stages, e2 \in Stages}

\* The store when a reboot is requested: a running desktop with its Resize
\* rows, its progress reset.
InitReboot ==
    /\ \E s \in ResizeStores, l \in RebootLedgers,
          st \in {VM_OKAY, VM_SUPERSIZED, VM_WAITING} :
          /\ volumes = s.volumes
          /\ instances = [s.instances EXCEPT ![1].resizes = l]
          /\ vm_status = [s.vm_status EXCEPT !.status = st,
                                             !.status_progress = 0]
    /\ queue = {}
    /\ now = 0
    /\ last = NoStep
    /\ run = NoRun

NextReboot ==
    \/ \E i \in InstIds, reboot_level \in {REBOOT_SOFT, REBOOT_HARD} :
          reboot_vm_worker(i, reboot_level)
    \/ \E job \in queue : _check_power_state(job)

SpecReboot == InitReboot /\ [][NextReboot]_vars

\* C35: reboot_vm_worker reboots an ACTIVE server at the level asked for and
\* a SHUTDOWN server at the hard level; for a server in another status, or a
\* missing one, it records the error on the Instance, makes no call, leaves
\* the Volume row (rebooted_at) and the VMStatus row (progress) alone and
\* schedules nothing.
C35_RebootOnlyActiveOrShutdown ==
    [][\A i \in InstIds, reboot_level \in {REBOOT_SOFT, REBOOT_HARD} :
          reboot_vm_worker(i, reboot_level)
          => /\ (last'.obs.provider = "ok" /\ last'.obs.status = ACTIVE)
                => last'.calls = <<"reboot", reboot_level>>
             /\ (last'.obs.provider = "ok" /\ last'.obs.status = SHUTDOWN)
                => last'.calls = <<"reboot", REBOOT_HARD>>
             /\ (\/ last'.obs.provider = "NotFound"
                 \/ /\ last'.obs.provider = "ok"
                    /\ last'.obs.status \notin {ACTIVE, SHUTDOWN})
                => /\ instances'[i].error_message # ""
                   /\ last'.calls = <<>>
                   /\ volumes' = volumes
                   /\ vm_status' = vm_status
                   /\ queue' = {}
             /\ last'.calls # <<>>
                => /\ last'.obs.provider = "ok"
                   /\ last'.obs.status \in {ACTIVE, SHUTDOWN}]_vars

\* A SHUTDOWN server was rebooted at the hard level and the power-state
\* check was scheduled.
C35_Witness ==
    /\ last.step = "reboot_vm_worker"
    /\ last.obs.status = SHUTDOWN
    /\ last.calls = <<"reboot", REBOOT_HARD>>
    /\ volumes[last.vol].rebooted_at
    /\ vm_status.status_progress = 33
    /\ queue # {}

C37_RebootConfirmationIsBounded ==
    [][/\ run'.kind = "reboot"
          => run'.checks <= REBOOT_CONFIRM_RETRIES + 1
       /\ \A job \in queue :
             (_check_power_state(job) /\ last'.obs.status # ACTIVE)
             => IF job.retries > 0
                THEN /\ queue' = {RebootJob(job.inst, job.retries - 1)}
                     /\ instances' = instances
                     /\ volumes' = volumes
                     /\ vm_status' = vm_status
                ELSE /\ queue' = {}
                     /\ run'.checks = REBOOT_CONFIRM_RETRIES + 1
                     /\ instances'[job.inst].error_message
                        = "Instance has not gone ACTIVE after reboot"
                     /\ vm_status'.status \notin {VM_OKAY, VM_SUPERSIZED}
                     /\ vm_status'.status_progress = 33]_vars

\* The last permitted check did not find the instance ACTIVE and ended the
\* reboot with the error.
C37_Witness ==
    /\ last.step = "_check_power_state"
    /\ last.obs.status = "OTHER"
    /\ run.checks = REBOOT_CONFIRM_RETRIES + 1
    /\ queue = {}
    /\ vm_status.status = VM_ERROR
    /\ instances[last.inst].error_message
       = "Instance has not gone ACTIVE after reboot"

\* C38: the _check_power_state that finds the instance ACTIVE calls
\* end_resize exactly when the instance's latest Resize exists, is not
\* reverted and has an Expiration in stage EXP_EXPIRING.
C38_EndResizeOnlyForUnrevertedExpiring ==
    [][\A job \in queue :
          (_check_power_state(job) /\ last'.obs.status = ACTIVE)
          => LET rows == instances[job.inst].resizes
                 pending == /\ rows # <<>>
                            /\ ~rows[Len(rows)].reverted
                            /\ rows[Len(rows)].expiration = EXP_EXPIRING
             IN  (last'.calls = <<"end_resize">>) <=> pending]_vars

\* -------------------------------------------------------- all the workflows
\* The create, delete / archive and reboot workflows on one store.
NextWorkflows == Next \/ NextReboot

SpecWorkflows == Init /\ [][NextWorkflows]_vars

\* C39: every step adds at most one callback to the scheduler's queue, and
\* the queue never holds more than one pending step.
C39_AtMostOnePendingStep ==
    [][/\ Cardinality(queue' \ queue) <= 1
       /\ Cardinality(queue') <= 1]_vars

\* A step consumed the pending callback and scheduled its successor.
C39_Witness ==
    /\ last.step = "_check_instance_is_shutoff_and_delete"
    /\ last.calls = <<"delete_server">>
    /\ Cardinality(queue) = 1
    /\ \E j \in queue : j.func = "_dispose_volume_once_instance_is_deleted"

\* C40: when wait_for_backup ends an archive with WF_SUCCESS, the
\* connector has accepted the delete of the source volume and the Volume is
\* recorded as deleted.
C40_ArchiveSuccessMeansVolumeDeleted ==
    (last.step = "wait_for_backup" /\ last.result = Wf_SUCCESS)
    => /\ last.calls = <<"delete_volume">>
       /\ cloud_delete_volume(last.obs.provider) = "True"
       /\ volumes[last.vol].deleted

=============================================================================
